---- MODULE Spec2Model ----
(***************************************************************************)
(* Stream combinators and the streaming renderer of splay-client           *)
(* (src/src/streaming.ts): mergeStreams, throttleStream, debounceStream    *)
(* and the coalescing renderer of createStreamingRegistry; the renderer    *)
(* registries (createClientRegistry, createCheckedRegistry,                *)
(* createStreamingRegistry, createDualRegistry), the generic hydrate of    *)
(* createHydrate and the descriptor utilities (walkDescriptor,             *)
(* transformDescriptor, getUsedTypes, validateDescriptor, serialize /      *)
(* parse, compactDescriptor).                                              *)
(*                                                                         *)
(* The runtime is single-threaded: every action below is one run of code   *)
(* between two suspension points (await / yield / timer callback).         *)
(* Source elements are modelled by their identity: element k of a source   *)
(* is the number k (1-based), element k of input i of a merge is <<i, k>>. *)
(* Every ComponentOutput is an object, hence truthy; Null (0) is the only  *)
(* falsy value a slot can hold.                                            *)
(***************************************************************************)
EXTENDS Integers, Sequences, FiniteSets, TLC

\* ---- bounds of the model ----
MaxStreams == 2
MaxLen == 3
MaxSrc == 3
MaxTime == 4
MaxInterval == 2
MaxWait == 2
MaxBuf == 3
MaxItems == 7
MaxNodes == 3
MaxStream == 2
MaxTree == 3

\* `null` of the source (pending, latest, timer, resolve)
Null == 0

\* Date.now() is milliseconds since 1970: it is never below a rate-limiting
\* interval.  The clock of the model starts at Epoch.
Epoch == MaxInterval + MaxWait

VARIABLES
  \* -- mergeStreams --
  streams,     \* the inputs: streams[i] is the length of input i
  active,      \* Set of iterators still active
  issued,      \* issued[i]: number of next() calls made on iterator i
  settled,     \* settled[i]: number of those calls that have settled
  merged,      \* what mergeStreams has yielded, in order
  mpc,         \* position of the merge generator
  \* -- clock shared by throttle and debounce --
  now,
  \* -- throttleStream --
  intervalMs, tLen, tArrived, lastEmit, pending, tNow, tOut, tLog, tpc,
  \* -- debounceStream --
  waitMs, dLen, dArrived, latest, timer, armed, outputs, resolve,
  procDone, dpc, dYielded, dEmitted, dArrivedAt, dEndAt,
  \* -- createStreamingRegistry renderer --
  bufferSize, rLen, rArrived, buffer, rOut, rpc,
  \* -- the registries --
  namespace,      \* options.namespace: <<>> when absent, <<n>> when given
  procedures,     \* the paths hasProcedure reports as existing
  isStreaming,    \* the types the classification function reports as streaming
  cache,          \* cache[reg]: the Map of that registry, type -> renderer
  built,          \* built[reg][type]: how many renderers were constructed
  firstBuilt,     \* firstBuilt[reg]: type -> the first renderer constructed
  lastCall,       \* the last get / has / register call and what it returned
  gpc,            \* "off", "registry" (sync, checked, streaming) or "dual"
  thisSync,       \* what this.sync is when render runs: "built" or "empty"
  thisStreaming,  \* what this.streaming is when render runs
  rdType, rdPrefer, rdPath, rdLen, rdOut, rdCalls, rdError, rdpc,
  \* -- createHydrate --
  descriptor, hopts, hResult, hpc,
  \* -- descriptor utilities --
  uTree,     \* the descriptor the utility is called with
  uOp,       \* the utility called
  uArg,      \* its second argument (the transform, the known types)
  uOut,      \* what it returned
  upc        \* "off", "ready" or "done"

mvars == <<streams, active, issued, settled, merged, mpc>>
tvars == <<intervalMs, tLen, tArrived, lastEmit, pending, tNow, tOut, tLog, tpc>>
dvars == <<waitMs, dLen, dArrived, latest, timer, armed, outputs, resolve,
           procDone, dpc, dYielded, dEmitted, dArrivedAt, dEndAt>>
rvars == <<bufferSize, rLen, rArrived, buffer, rOut, rpc>>
gvars == <<namespace, procedures, isStreaming, cache, built, firstBuilt,
           lastCall, gpc, thisSync, thisStreaming,
           rdType, rdPrefer, rdPath, rdLen, rdOut, rdCalls, rdError, rdpc>>
hvars == <<descriptor, hopts, hResult, hpc>>
uvars == <<uTree, uOp, uArg, uOut, upc>>
restvars == <<gvars, hvars, uvars>>
vars == <<mvars, now, tvars, dvars, rvars, restvars>>

\* ---- a subsystem that is not running ----
MergeOff ==
  /\ streams = <<>> /\ active = {} /\ issued = <<>> /\ settled = <<>>
  /\ merged = <<>> /\ mpc = "off"

ThrottleOff ==
  /\ intervalMs = 0 /\ tLen = 0 /\ tArrived = 0 /\ lastEmit = 0
  /\ pending = Null /\ tNow = 0 /\ tOut = <<>> /\ tLog = <<>> /\ tpc = "off"

DebounceOff ==
  /\ waitMs = 0 /\ dLen = 0 /\ dArrived = 0 /\ latest = Null /\ timer = Null
  /\ armed = {} /\ outputs = <<>> /\ resolve = "null" /\ procDone = FALSE
  /\ dpc = "off" /\ dYielded = <<>> /\ dEmitted = <<>> /\ dArrivedAt = <<>>
  /\ dEndAt = 0

RendererOff ==
  /\ bufferSize = 0 /\ rLen = 0 /\ rArrived = 0 /\ buffer = <<>>
  /\ rOut = <<>> /\ rpc = "off"

\* The registries
Regs == {"client", "checked", "streaming", "dualSync", "dualStreaming"}

NoCall == [op |-> "none", reg |-> "none", type |-> "", renderer |-> <<>>,
           value |-> "none", threw |-> FALSE, path |-> <<>>]

RegistryOff ==
  /\ namespace = <<>> /\ procedures = {} /\ isStreaming = {}
  /\ cache = [r \in Regs |-> [t \in {} |-> 0]]
  /\ built = [r \in Regs |-> [t \in {} |-> 0]]
  /\ firstBuilt = [r \in Regs |-> [t \in {} |-> 0]]
  /\ lastCall = NoCall /\ gpc = "off"
  /\ thisSync = "built" /\ thisStreaming = "built"
  /\ rdType = "" /\ rdPrefer = FALSE /\ rdPath = "none" /\ rdLen = 0
  /\ rdOut = <<>> /\ rdCalls = <<>> /\ rdError = <<>> /\ rdpc = "off"

HydrateOff ==
  /\ descriptor = <<>> /\ hopts = <<>> /\ hResult = <<>> /\ hpc = "off"

UtilOff ==
  /\ uTree = <<>> /\ uOp = "none" /\ uArg = <<>> /\ uOut = <<>> /\ upc = "off"

RestOff == RegistryOff /\ HydrateOff /\ UtilOff

\* =========================================================================
\* mergeStreams
\* =========================================================================

\* The inputs are async generators: next() calls queue up and settle in call
\* order, the n-th call with the n-th element, or with done past the end.
\* A result <<i, 0>> is {done: true}.
PullSame(i, n) == IF n <= streams[i] THEN <<i, 1>> ELSE <<i, 0>>
PullResult(i, n) == IF n <= streams[i] THEN <<i, n>> ELSE <<i, 0>>

IsDoneResult(r) == r[2] = 0

\* `yield result.value`
RelayFirst(out, v) == <<v>> \o out
Relay(out, v) == Append(out, v)

\* `while (active.size > 0)` is left
AllDoneEarly(act) == Cardinality(act) <= 1
AllDone(act) == act = {}

\* One evaluation of the while condition and, when it holds, of the
\* promises array: one new next() call on every active iterator.
LoopHead(act) ==
  IF AllDone(act)
    THEN /\ mpc' = "done"
         /\ issued' = issued
    ELSE /\ mpc' = "racing"
         /\ issued' = [i \in DOMAIN issued |->
                         IF i \in act THEN issued[i] + 1 ELSE issued[i]]

MergeInit ==
  /\ now = Epoch /\ ThrottleOff /\ DebounceOff /\ RendererOff /\ RestOff
  /\ streams \in UNION {[1..n -> 0..MaxLen] : n \in 0..MaxStreams}
  /\ active = DOMAIN streams
  /\ issued = [i \in DOMAIN streams |-> 0]
  /\ settled = [i \in DOMAIN streams |-> 0]
  /\ merged = <<>>
  /\ mpc = "suspended"

MergeFrame == UNCHANGED <<now, tvars, dvars, rvars, restvars>>

\* The consumer calls next(): the generator starts, or resumes after a yield.
MPull ==
  /\ mpc = "suspended"
  /\ LoopHead(active)
  /\ UNCHANGED <<streams, active, settled, merged>>
  /\ MergeFrame

\* The oldest outstanding next() call of iterator i settles.  Only the call
\* made in the current round is in the current Promise.race; the result of
\* an older call goes to a race that is already over and is read by nobody.
MSettle(i) ==
  /\ mpc # "off"
  /\ settled[i] < issued[i]
  /\ settled' = [settled EXCEPT ![i] = @ + 1]
  /\ LET r == PullResult(i, settled[i] + 1)
         wins == mpc = "racing" /\ i \in active /\ settled[i] + 1 = issued[i]
     IN  IF wins
           THEN IF IsDoneResult(r)
                  THEN /\ active' = active \ {i}
                       /\ LoopHead(active \ {i})
                       /\ merged' = merged
                  ELSE /\ merged' = Relay(merged, r)
                       /\ mpc' = "suspended"
                       /\ UNCHANGED <<active, issued>>
           ELSE UNCHANGED <<active, issued, merged, mpc>>
  /\ UNCHANGED streams
  /\ MergeFrame

MergeNext ==
  \/ MPull
  \/ \E i \in DOMAIN streams : MSettle(i)

SpecMerge == MergeInit /\ [][MergeNext]_vars

Range(s) == {s[j] : j \in DOMAIN s}

\* Every element of every input
AllInputs == UNION {{<<i, k>> : k \in 1..streams[i]} : i \in DOMAIN streams}

\* C1: when mergeStreams has completed, its output holds every element of
\* every input (nothing an input produced was dropped).
MergeKeepsEveryElement ==
  mpc = "done" => AllInputs \subseteq Range(merged)

\* C1, the documented example: merging [1,2] and [10,20] yields all four.
MergeExampleComplete ==
  (mpc = "done" /\ streams = <<2, 2>>) => Len(merged) = 4

\* C2: two elements of the output that came from the same input are in the
\* order that input produced them.
MergePreservesSourceOrder ==
  \A a, b \in DOMAIN merged :
    (a < b /\ merged[a][1] = merged[b][1]) => merged[a][2] < merged[b][2]

\* C2 witness: a completed merge whose output interleaves two inputs and
\* holds two elements of the same input.
MergeOrderWitness ==
  /\ mpc = "done"
  /\ \E a, b, c \in DOMAIN merged :
       /\ a < b /\ b < c
       /\ merged[a][1] = merged[c][1]
       /\ merged[b][1] # merged[a][1]

\* =========================================================================
\* The clock: Date.now() and the timers read the same time.
\* =========================================================================
Tick ==
  /\ now < Epoch + MaxTime
  /\ \/ tpc \notin {"off", "done"}
     \/ dpc \notin {"off", "done"}
  /\ now' = now + 1
  /\ UNCHANGED <<mvars, tvars, dvars, rvars, restvars>>

\* =========================================================================
\* throttleStream
\* =========================================================================

\* `now - lastEmit >= intervalMs`
ShouldForwardStrict(t, last, interval) == t - last > interval
ShouldForward(t, last, interval) == t - last >= interval

\* `lastEmit = now` after the yield
EmitStampStale(t) == lastEmit
EmitStamp(t) == t

\* `pending = null` after the yield
PendingKept == pending
PendingAfterForward == Null

ThrottleInit ==
  /\ now = Epoch /\ MergeOff /\ DebounceOff /\ RendererOff /\ RestOff
  /\ intervalMs \in 0..MaxInterval
  /\ tLen \in 0..MaxSrc
  /\ tArrived = 0
  /\ lastEmit = 0
  /\ pending = Null
  /\ tNow = 0
  /\ tOut = <<>>
  /\ tLog = <<>>
  /\ tpc = "start"

ThrottleFrame == UNCHANGED <<mvars, now, dvars, rvars, restvars>>

\* The consumer calls next(): the generator starts, resumes after the yield
\* of a forwarded element (lines 340-341), or resumes after the trailing
\* yield and returns.
TPull ==
  /\ tpc \in {"start", "yielded", "flushed"}
  /\ IF tpc = "yielded"
       THEN /\ lastEmit' = EmitStamp(tNow)
            /\ pending' = PendingAfterForward
       ELSE UNCHANGED <<lastEmit, pending>>
  /\ tpc' = IF tpc = "flushed" THEN "done" ELSE "awaitSrc"
  /\ UNCHANGED <<intervalMs, tLen, tArrived, tNow, tOut, tLog>>
  /\ ThrottleFrame

\* The source delivers its next element to the for-await loop.
TArrive ==
  /\ tpc = "awaitSrc"
  /\ tArrived < tLen
  /\ tArrived' = tArrived + 1
  /\ tNow' = now
  /\ IF ShouldForward(now, lastEmit, intervalMs)
       THEN /\ tOut' = Append(tOut, [v |-> tArrived + 1, at |-> now, flush |-> FALSE])
            /\ tpc' = "yielded"
            /\ pending' = pending
       ELSE /\ pending' = tArrived + 1
            /\ UNCHANGED <<tOut, tpc>>
  /\ tLog' = Append(tLog, [v |-> tArrived + 1, at |-> now,
                           outLen |-> Len(tOut'), pend |-> pending'])
  /\ UNCHANGED <<intervalMs, tLen, lastEmit>>
  /\ ThrottleFrame

\* The source ends: the trailing `if (pending) yield pending`.
TEnd ==
  /\ tpc = "awaitSrc"
  /\ tArrived = tLen
  /\ IF pending # Null
       THEN /\ tOut' = Append(tOut, [v |-> pending, at |-> now, flush |-> TRUE])
            /\ tpc' = "flushed"
       ELSE /\ tOut' = tOut
            /\ tpc' = "done"
  /\ UNCHANGED <<intervalMs, tLen, tArrived, lastEmit, pending, tNow, tLog>>
  /\ ThrottleFrame

ThrottleNext ==
  \/ TPull
  \/ TArrive
  \/ TEnd
  \/ Tick

SpecThrottle == ThrottleInit /\ [][ThrottleNext]_vars

\* ---- throttleStream: what the arrival log says ----
\* tLog[j] is the j-th arrival: the element, the time it arrived, the length
\* of the output and the pending slot right after the code handled it.
OutLenBefore(j) == IF j = 1 THEN 0 ELSE tLog[j - 1].outLen
Forwarded(j) == tLog[j].outLen = OutLenBefore(j) + 1
ForwardedBefore(j) == {k \in 1..(j - 1) : Forwarded(k)}
LastForwardedBefore(j) ==
  CHOOSE k \in ForwardedBefore(j) : \A m \in ForwardedBefore(j) : m <= k

\* C6: an arrival is forwarded at once exactly when at least intervalMs has
\* passed since the arrival of the last forwarded element (the first arrival
\* has none before it and is forwarded); an arrival that is not forwarded
\* leaves the output as it is and becomes the pending value.
ThrottleForwardsIffIntervalElapsed ==
  \A j \in DOMAIN tLog :
    LET due == \/ ForwardedBefore(j) = {}
               \/ tLog[j].at - tLog[LastForwardedBefore(j)].at >= intervalMs
    IN  /\ Forwarded(j) <=> due
        /\ Forwarded(j) =>
             /\ tOut[tLog[j].outLen].v = tLog[j].v
             /\ tOut[tLog[j].outLen].at = tLog[j].at
             /\ ~tOut[tLog[j].outLen].flush
        /\ ~Forwarded(j) =>
             /\ tLog[j].outLen = OutLenBefore(j)
             /\ tLog[j].pend = tLog[j].v

\* C6 witness: an element was forwarded, the next one was suppressed and
\* then replaced as the pending value by a still later, suppressed one.
ThrottleSuppressWitness ==
  \E j \in DOMAIN tLog :
    /\ j >= 3
    /\ Forwarded(j - 2) /\ ~Forwarded(j - 1) /\ ~Forwarded(j)
    /\ tLog[j].pend = tLog[j].v
    /\ tLog[j].at > tLog[j - 2].at

\* C7: two emissions that are not the trailing flush are at least
\* intervalMs apart.
ThrottleSpacing ==
  \A a, b \in DOMAIN tOut :
    (a < b /\ ~tOut[a].flush /\ ~tOut[b].flush) =>
      tOut[b].at - tOut[a].at >= intervalMs

\* C7 witness: two forwarded elements under a positive interval, and a
\* trailing flush closer than the interval to the last of them.
ThrottleSpacingWitness ==
  /\ intervalMs > 0
  /\ \E a, b, c \in DOMAIN tOut :
       /\ a < b /\ b < c
       /\ ~tOut[a].flush /\ ~tOut[b].flush /\ tOut[c].flush
       /\ tOut[c].at - tOut[b].at < intervalMs

Flushes == {a \in DOMAIN tOut : tOut[a].flush}
SourceEnded == tpc \in {"flushed", "done"}

\* C8: once the source has ended, if the last arrival was suppressed (a
\* pending value is held) the output ends with that value, emitted once by
\* the trailing flush; if the last arrival was forwarded, or there was none,
\* the output holds no trailing flush at all.
ThrottleTrailingFlush ==
  SourceEnded =>
    IF tLog # <<>> /\ ~Forwarded(Len(tLog))
      THEN /\ Flushes = {Len(tOut)}
           /\ tOut[Len(tOut)].v = tLen
           /\ Cardinality({a \in DOMAIN tOut : tOut[a].v = tLen}) = 1
      ELSE /\ Flushes = {}
           /\ Len(tOut) = IF tLog = <<>> THEN 0 ELSE tLog[Len(tLog)].outLen

\* C8 witness: a source that ended with a pending value, flushed and
\* returned.
ThrottleFlushWitness ==
  /\ tpc = "done" /\ Flushes # {} /\ Len(tOut) >= 2

\* C8, the other case: a source whose last
\* element was forwarded after an earlier one had been suppressed.
ThrottleNoFlushWitness ==
  /\ tpc = "done" /\ Flushes = {}
  /\ \E j \in DOMAIN tLog : ~Forwarded(j)

\* =========================================================================
\* debounceStream
\* =========================================================================
\* timer    the id setTimer returned last (the element whose arrival set it)
\* armed    the timers set and neither fired nor cleared: <<id, due time>>
\* resolve  "null", "fresh" (the resolver of the promise the consumer is
\*          awaiting) or "stale" (the resolver of a promise already resolved)
\* dpc      "start"   generator created, body not yet run
\*          "waiting" consumer awaits the wake-up promise (line 406)
\*          "woken"   that promise is resolved, the continuation is queued
\*          "yielded" suspended at the yield (line 404)
\*          "done"    returned (line 417)
\* dEmitted, dYielded, dArrivedAt, dEndAt record what was pushed on outputs
\* (and when, and by whom), what the consumer received, and when the source
\* delivered its elements and ended.

\* setTimer(callback, waitMs): the callback runs no earlier than waitMs later
TimerDueNow(t, w) == t
TimerDue(t, w) == t + w

\* `if (timer) clearTimer(timer)` in the for-await body (lines 371-373)
KeepOnArrival(set, id) == set
ClearOnArrival(set, id) == {t \in set : t[1] # id}

\* `if (timer) clearTimer(timer)` before the final emit (lines 388-390)
KeepOnEnd(set, id) == set
ClearOnEnd(set, id) == {t \in set : t[1] # id}

\* Promise.race([processor.then(() => true), Promise.resolve(false)]):
\* Promise.resolve(false) is already fulfilled, so its reaction is queued when
\* the race subscribes to it and settles the race one microtask turn later;
\* processor.then(...) is a new promise, pending when the race subscribes:
\* it needs one turn to be fulfilled (when processor is fulfilled already)
\* and one more to reach the race.  The race is settled by the earlier one.
TurnsOfResolved == 1
TurnsOfThen == 2
RaceIsDone(pd) == pd /\ TurnsOfThen < TurnsOfResolved

DebounceInit ==
  /\ now = Epoch /\ MergeOff /\ ThrottleOff /\ RendererOff /\ RestOff
  /\ waitMs \in 0..MaxWait
  /\ dLen \in 0..MaxSrc
  /\ dArrived = 0
  /\ latest = Null
  /\ timer = Null
  /\ armed = {}
  /\ outputs = <<>>
  /\ resolve = "null"
  /\ procDone = FALSE
  /\ dpc = "start"
  /\ dYielded = <<>>
  /\ dEmitted = <<>>
  /\ dArrivedAt = <<>>
  /\ dEndAt = 0

DebounceFrame == UNCHANGED <<mvars, now, tvars, rvars, restvars>>

\* One turn of `while (true)` from its head: yield the head of the queue, or
\* install a new wake-up promise (`resolve = r`) and wait.
ConsumerLoopForgets ==
  IF outputs # <<>>
    THEN /\ dYielded' = Append(dYielded, Head(outputs))
         /\ outputs' = Tail(outputs)
         /\ dpc' = "yielded"
         /\ resolve' = resolve
    ELSE /\ resolve' = "null"
         /\ dpc' = "waiting"
         /\ UNCHANGED <<outputs, dYielded>>
ConsumerLoop ==
  IF outputs # <<>>
    THEN /\ dYielded' = Append(dYielded, Head(outputs))
         /\ outputs' = Tail(outputs)
         /\ dpc' = "yielded"
         /\ resolve' = resolve
    ELSE /\ resolve' = "fresh"
         /\ dpc' = "waiting"
         /\ UNCHANGED <<outputs, dYielded>>

\* The consumer calls next(): the first call starts the processor (which
\* then awaits the source) and enters the loop; a later call resumes it
\* after the yield.
DPull ==
  /\ dpc \in {"start", "yielded"}
  /\ ConsumerLoop
  /\ UNCHANGED <<waitMs, dLen, dArrived, latest, timer, armed, procDone,
                 dEmitted, dArrivedAt, dEndAt>>
  /\ DebounceFrame

\* The continuation of the consumer after the wake-up promise resolved
\* (lines 410-418).
DWake ==
  /\ dpc = "woken"
  /\ IF RaceIsDone(procDone) /\ outputs = <<>>
       THEN /\ dpc' = "done"
            /\ UNCHANGED <<outputs, dYielded, resolve>>
       ELSE ConsumerLoop
  /\ UNCHANGED <<waitMs, dLen, dArrived, latest, timer, armed, procDone,
                 dEmitted, dArrivedAt, dEndAt>>
  /\ DebounceFrame

\* The source delivers its next element to the processor (lines 368-385).
\* The processor is an async function started by the first pull; it awaits
\* the source on its own, wherever the consumer is.
DArriveOnDemand ==
  /\ dpc = "waiting"
  /\ ~procDone
  /\ dArrived < dLen
  /\ dArrived' = dArrived + 1
  /\ latest' = dArrived + 1
  /\ armed' = (IF timer # Null THEN ClearOnArrival(armed, timer) ELSE armed)
                \cup {<<dArrived + 1, TimerDue(now, waitMs)>>}
  /\ timer' = dArrived + 1
  /\ dArrivedAt' = Append(dArrivedAt, now)
  /\ UNCHANGED <<waitMs, dLen, outputs, resolve, procDone, dpc, dYielded,
                 dEmitted, dEndAt>>
  /\ UNCHANGED <<mvars, now, tvars, rvars, restvars>>
DArrive ==
  /\ dpc \notin {"off", "start"}
  /\ ~procDone
  /\ dArrived < dLen
  /\ dArrived' = dArrived + 1
  /\ latest' = dArrived + 1
  /\ armed' = (IF timer # Null THEN ClearOnArrival(armed, timer) ELSE armed)
                \cup {<<dArrived + 1, TimerDue(now, waitMs)>>}
  /\ timer' = dArrived + 1
  /\ dArrivedAt' = Append(dArrivedAt, now)
  /\ UNCHANGED <<waitMs, dLen, outputs, resolve, procDone, dpc, dYielded,
                 dEmitted, dEndAt>>
  /\ DebounceFrame

\* A timer callback runs (lines 375-384).  Timers are tasks: none runs while
\* the woken consumer still has its continuation in the microtask queue.
DTimerFire(t) ==
  /\ t \in armed
  /\ t[2] <= now
  /\ dpc # "woken"
  /\ armed' = armed \ {t}
  /\ IF latest # Null
       THEN /\ outputs' = Append(outputs, latest)
            /\ dEmitted' = Append(dEmitted, [v |-> latest, at |-> now, by |-> "timer"])
            /\ latest' = Null
            /\ IF resolve # "null"
                 THEN /\ resolve' = "null"
                      /\ dpc' = IF resolve = "fresh" THEN "woken" ELSE dpc
                 ELSE UNCHANGED <<resolve, dpc>>
       ELSE UNCHANGED <<outputs, dEmitted, latest, resolve, dpc>>
  /\ UNCHANGED <<waitMs, dLen, dArrived, timer, procDone, dYielded,
                 dArrivedAt, dEndAt>>
  /\ DebounceFrame

\* The source ends: the final emit of the processor (lines 387-399).
DEnd ==
  /\ dpc \notin {"off", "start"}
  /\ ~procDone
  /\ dArrived = dLen
  /\ procDone' = TRUE
  /\ dEndAt' = now
  /\ armed' = IF timer # Null THEN ClearOnEnd(armed, timer) ELSE armed
  /\ IF latest # Null
       THEN /\ outputs' = Append(outputs, latest)
            /\ dEmitted' = Append(dEmitted, [v |-> latest, at |-> now, by |-> "flush"])
            /\ IF resolve = "fresh"
                 THEN /\ resolve' = "stale"
                      /\ dpc' = "woken"
                 ELSE UNCHANGED <<resolve, dpc>>
       ELSE UNCHANGED <<outputs, dEmitted, resolve, dpc>>
  /\ UNCHANGED <<waitMs, dLen, dArrived, latest, timer, dYielded, dArrivedAt>>
  /\ DebounceFrame

DebounceNext ==
  \/ DPull
  \/ DWake
  \/ DArrive
  \/ \E t \in armed : DTimerFire(t)
  \/ DEnd
  \/ Tick

SpecDebounce == DebounceInit /\ [][DebounceNext]_vars

\* ---- debounceStream: what the logs say ----
\* The gap between arrival k and the arrival before it
Gap(k) == dArrivedAt[k] - dArrivedAt[k - 1]

\* The burst the arrivals so far end with: from BurstStart on, each input
\* came less than waitMs after the one before it.
BurstStart ==
  CHOOSE i \in 1..dArrived :
    /\ \A k \in (i + 1)..dArrived : Gap(k) < waitMs
    /\ i = 1 \/ Gap(i) >= waitMs

EmittedOf(k) == {a \in DOMAIN dEmitted : dEmitted[a].v = k}
EmittedOfBurst == {a \in DOMAIN dEmitted : dEmitted[a].v >= BurstStart}

\* The arrivals so far are one burst
IsBurst == dArrived >= 1 /\ BurstStart = 1

DebounceLastExactlyOnce ==
  (procDone /\ dLen >= 1) => Cardinality(EmittedOf(dLen)) = 1

\* C4 witness: the source ended while the last value was pending with its
\* timer armed and not yet due; the final emit placed it on the output, the
\* consumer received it, and the time the timer was due has passed.
DebounceFlushWitness ==
  /\ procDone /\ dLen >= 2
  /\ \E a \in DOMAIN dEmitted :
       /\ dEmitted[a].v = dLen
       /\ dEmitted[a].by = "flush"
       /\ dEmitted[a].at < dArrivedAt[dLen] + waitMs
  /\ now > dArrivedAt[dLen] + waitMs
  /\ dYielded # <<>> /\ dYielded[Len(dYielded)] = dLen

\* Nothing is left that could put a value on the queue or wake the consumer.
Settled == procDone /\ armed = {} /\ outputs = <<>>

\* C5: once the input is consumed, no timer is armed and the queue is empty,
\* a consumer that has pulled is not left waiting for the wake-up signal:
\* its pull returns done.
DebounceEndsWhenSettled ==
  Settled => dpc # "waiting"

\* =========================================================================
\* throttleStream or debounceStream, whichever was called
\* =========================================================================
RateLimitInit ==
  \/ ThrottleInit
  \/ DebounceInit

RateLimitNext ==
  \/ TPull
  \/ TArrive
  \/ TEnd
  \/ DPull
  \/ DWake
  \/ DArrive
  \/ \E t \in armed : DTimerFire(t)
  \/ DEnd
  \/ Tick

SpecRateLimit == RateLimitInit /\ [][RateLimitNext]_vars

StrictlyIncreasing(seq) ==
  \A a, b \in DOMAIN seq : a < b => seq[a] < seq[b]

ThrottleValues == [a \in DOMAIN tOut |-> tOut[a].v]
DebounceValues == [a \in DOMAIN dEmitted |-> dEmitted[a].v]

\* C9: the output of throttleStream and the output of debounceStream hold
\* only elements the source has delivered, each at most once and in source
\* order (elements are their positions in the source, so this is: strictly
\* increasing); the consumer of debounceStream receives the emitted values in
\* the order they were emitted.
RateLimitersKeepOrder ==
  /\ StrictlyIncreasing(ThrottleValues)
  /\ Range(ThrottleValues) \subseteq 1..tArrived
  /\ StrictlyIncreasing(DebounceValues)
  /\ Range(DebounceValues) \subseteq 1..dArrived
  /\ dYielded \o outputs = DebounceValues

\* C9 witness: debounceStream delivered the first and the third element of
\* its source and skipped the second.
RateLimitSkipWitness ==
  /\ dYielded = <<1, 3>> /\ procDone

\* the same for throttleStream: first forwarded, second dropped, third flushed
ThrottleSkipWitness ==
  /\ ThrottleValues = <<1, 3>> /\ tpc = "done"

\* =========================================================================
\* createStreamingRegistry: the renderer of createRenderer
\* =========================================================================
\* The underlying stream of callStreaming has rLen elements 1..rLen.
\* rpc: "start", "awaitSrc", "yielded" (line 105), "yieldedFull" (line 113),
\*      "flushed" (line 121), "done".

\* `buffer.length >= bufferSize`
BufferOverFull(len, size) == len > size
BufferFull(len, size) == len >= size

\* `buffer[buffer.length - 1]`
MostRecent(buf) == buf[Len(buf)]

RendererInit ==
  /\ now = Epoch /\ MergeOff /\ ThrottleOff /\ DebounceOff /\ RestOff
  /\ bufferSize \in 0..MaxBuf
  /\ rLen \in 0..MaxItems
  /\ rArrived = 0
  /\ buffer = <<>>
  /\ rOut = <<>>
  /\ rpc = "start"

RendererFrame == UNCHANGED <<mvars, now, tvars, dvars, restvars>>

\* The consumer calls next(): the generator starts or resumes after a yield
\* (`buffer = []` follows the yield of a full buffer).
RPull ==
  /\ rpc \in {"start", "yielded", "yieldedFull", "flushed"}
  /\ buffer' = IF rpc = "yieldedFull" THEN <<>> ELSE buffer
  /\ rpc' = IF rpc = "flushed" THEN "done" ELSE "awaitSrc"
  /\ UNCHANGED <<bufferSize, rLen, rArrived, rOut>>
  /\ RendererFrame

\* The underlying stream delivers its next element (lines 102-117).
RArrive ==
  /\ rpc = "awaitSrc"
  /\ rArrived < rLen
  /\ rArrived' = rArrived + 1
  /\ IF bufferSize <= 1
       THEN /\ rOut' = Append(rOut, rArrived + 1)
            /\ rpc' = "yielded"
            /\ buffer' = buffer
       ELSE /\ buffer' = Append(buffer, rArrived + 1)
            /\ IF BufferFull(Len(buffer'), bufferSize)
                 THEN /\ rOut' = Append(rOut, MostRecent(buffer'))
                      /\ rpc' = "yieldedFull"
                 ELSE UNCHANGED <<rOut, rpc>>
  /\ UNCHANGED <<bufferSize, rLen>>
  /\ RendererFrame

\* The underlying stream ends (lines 119-122).
REnd ==
  /\ rpc = "awaitSrc"
  /\ rArrived = rLen
  /\ IF Len(buffer) > 0
       THEN /\ rOut' = Append(rOut, MostRecent(buffer))
            /\ rpc' = "flushed"
       ELSE /\ rOut' = rOut
            /\ rpc' = "done"
  /\ UNCHANGED <<bufferSize, rLen, rArrived, buffer>>
  /\ RendererFrame

RendererNext ==
  \/ RPull
  \/ RArrive
  \/ REnd

SpecRenderer == RendererInit /\ [][RendererNext]_vars

CeilDiv(n, b) == (n + b - 1) \div b

\* What C10 says the renderer emits for buffer size b and a stream 1..n
Coalesced(b, n) ==
  IF b <= 1
    THEN [k \in 1..n |-> k]
    ELSE [k \in 1..CeilDiv(n, b) |-> IF k * b <= n THEN k * b ELSE n]

\* C10: when the renderer has returned it has emitted every element in order
\* if bufferSize <= 1, and otherwise the elements at positions b, 2b, 3b, ...
\* followed by the last element when the length is no multiple of b.
RendererCoalesces ==
  rpc = "done" => rOut = Coalesced(bufferSize, rLen)

\* C10 witness: buffer size 3 and 7 elements give 3, 6 and the trailing 7.
RendererWitness ==
  /\ rpc = "done" /\ bufferSize = 3 /\ rLen = 7 /\ rOut = <<3, 6, 7>>

\* =========================================================================
\* The registries: createClientRegistry, createCheckedRegistry
\* (src/unnamed/part_002), createStreamingRegistry, createDualRegistry
\* =========================================================================
\* A renderer is the closure createRenderer returns: it is known by the
\* registry and type it was made for, its serial number among the renderers
\* made for that type, the procedure path it captured and the call
\* capability it invokes.  Every renderer is a function, hence truthy.

Types == {"a", "b"}
Namespaces == {<<>>, <<"">>, <<"ui">>}

\* `if (namespace)`: undefined and the empty string are falsy
NsTruthy(ns) == ns # <<>> /\ ns[1] # ""

\* buildPath
BuildPathNoNs(type) == <<"components", type>>
BuildPath(type) ==
  LET basePath == <<"components">>
      withNs == IF NsTruthy(namespace)
                  THEN Append(basePath, namespace[1])
                  ELSE basePath
  IN  Append(withNs, type)

\* The call capability a registry's renderers invoke
CallOf(reg) ==
  CASE reg \in {"client", "checked"} -> "call"
    [] reg = "dualSync" -> "callSync"
    [] OTHER -> "callStreaming"

\* Map.set
MapSet(m, k, v) == [x \in DOMAIN m \cup {k} |-> IF x = k THEN v ELSE m[x]]

BuiltCount(reg, type) ==
  IF type \in DOMAIN built[reg] THEN built[reg][type] ELSE 0

\* createRenderer / createSyncRenderer / createStreamingRenderer
CreateRenderer(reg, type) ==
  [reg |-> reg, type |-> type, n |-> BuiltCount(reg, type) + 1,
   path |-> BuildPath(type), fn |-> CallOf(reg)]

\* `rendererCache.get(type)` is a renderer
CacheMiss(reg, type) == FALSE
CacheHit(reg, type) == type \in DOMAIN cache[reg]

\* What get(type) returns
GetResult(reg, type) ==
  IF CacheHit(reg, type) THEN cache[reg][type] ELSE CreateRenderer(reg, type)

\* What get(type) does to the cache (built and firstBuilt record it)
DoGet(reg, type) ==
  IF CacheHit(reg, type)
    THEN UNCHANGED <<cache, built, firstBuilt>>
    ELSE /\ cache' = [cache EXCEPT ![reg] = MapSet(@, type, CreateRenderer(reg, type))]
         /\ built' = [built EXCEPT ![reg] = MapSet(@, type, BuiltCount(reg, type) + 1)]
         /\ firstBuilt' =
              IF type \in DOMAIN firstBuilt[reg]
                THEN firstBuilt
                ELSE [firstBuilt EXCEPT ![reg] = MapSet(@, type, CreateRenderer(reg, type))]

\* The registries of the running program
LiveRegs ==
  CASE gpc = "registry" -> {"client", "checked", "streaming"}
    [] gpc = "dual" -> {"dualSync", "dualStreaming"}
    [] OTHER -> {}

\* A renderer a caller might try to register
Foreign == [reg |-> "foreign", type |-> "", n |-> 0, path |-> <<>>, fn |-> "user"]

\* register(type, renderer): what it leaves in the cache
RegisterStores(reg, type, renderer) ==
  [cache EXCEPT ![reg] = MapSet(@, type, renderer)]
RegisterEffect(reg, type, renderer) == cache

\* has(type)
HasAlways(reg, type) == TRUE
HasResult(reg, type) ==
  CASE reg \in {"client", "streaming"} -> TRUE
    [] reg = "checked" -> BuildPath(type) \in procedures
    [] reg = "dualSync" -> type \notin isStreaming
    [] reg = "dualStreaming" -> type \in isStreaming

RenderIdle ==
  /\ rdType = "" /\ rdPrefer = FALSE /\ rdPath = "none" /\ rdLen = 0
  /\ rdOut = <<>> /\ rdCalls = <<>> /\ rdError = <<>>

EmptyCaches == [r \in Regs |-> [t \in {} |-> 0]]

\* createClientRegistry, createCheckedRegistry and createStreamingRegistry,
\* each called once with the same options
RegistryInit ==
  /\ now = Epoch /\ MergeOff /\ ThrottleOff /\ DebounceOff /\ RendererOff
  /\ HydrateOff /\ UtilOff
  /\ namespace \in Namespaces
  /\ procedures \in SUBSET ({<<"components", t>> : t \in Types} \cup
                            {<<"components", "ui", t>> : t \in Types})
  /\ isStreaming = {}
  /\ cache = EmptyCaches /\ built = EmptyCaches /\ firstBuilt = EmptyCaches
  /\ lastCall = NoCall
  /\ gpc = "registry"
  /\ thisSync = "built" /\ thisStreaming = "built"
  /\ RenderIdle /\ rdpc = "off"

\* createDualRegistry; render may run with `this` the registry as built, or
\* an object whose sync / streaming member has a get that returns undefined
\* (the Registry interfaces allow get to return undefined).
DualInitAny ==
  /\ now = Epoch /\ MergeOff /\ ThrottleOff /\ DebounceOff /\ RendererOff
  /\ HydrateOff /\ UtilOff
  /\ namespace \in Namespaces
  /\ procedures = {}
  /\ isStreaming \in SUBSET Types
  /\ cache = EmptyCaches /\ built = EmptyCaches /\ firstBuilt = EmptyCaches
  /\ lastCall = NoCall
  /\ gpc = "dual"
  /\ thisSync \in {"built", "empty"} /\ thisStreaming \in {"built", "empty"}
  /\ RenderIdle /\ rdpc = "idle"

\* createDualRegistry, render called on the registry it returned
DualInit ==
  /\ DualInitAny
  /\ thisSync = "built" /\ thisStreaming = "built"

RegistryFrame == UNCHANGED <<mvars, now, tvars, dvars, rvars, hvars, uvars>>
RenderUnchanged ==
  UNCHANGED <<rdType, rdPrefer, rdPath, rdLen, rdOut, rdCalls, rdError, rdpc>>
ConfigUnchanged ==
  UNCHANGED <<namespace, procedures, isStreaming, gpc, thisSync, thisStreaming>>

\* registry.get(type)
Get(reg, type) ==
  /\ reg \in LiveRegs
  /\ DoGet(reg, type)
  /\ lastCall' = [NoCall EXCEPT !.op = "get", !.reg = reg, !.type = type,
                                !.renderer = <<GetResult(reg, type)>>,
                                !.value = IF CacheHit(reg, type)
                                            THEN "cached" ELSE "constructed"]
  /\ ConfigUnchanged /\ RenderUnchanged /\ RegistryFrame

\* registry.has(type)
Has(reg, type) ==
  /\ reg \in LiveRegs
  /\ lastCall' = [NoCall EXCEPT !.op = "has", !.reg = reg, !.type = type,
                    !.value = IF HasResult(reg, type) THEN "true" ELSE "false"]
  /\ UNCHANGED <<cache, built, firstBuilt>>
  /\ ConfigUnchanged /\ RenderUnchanged /\ RegistryFrame

\* registry.register(type, renderer): createClientRegistry's register, which
\* createCheckedRegistry copies from its base registry
Register(reg, type, renderer) ==
  /\ reg \in LiveRegs \cap {"client", "checked"}
  /\ cache' = RegisterEffect(reg, type, renderer)
  /\ lastCall' = [NoCall EXCEPT !.op = "register", !.reg = reg, !.type = type,
                                !.renderer = <<renderer>>, !.threw = TRUE]
  /\ UNCHANGED <<built, firstBuilt>>
  /\ ConfigUnchanged /\ RenderUnchanged /\ RegistryFrame

\* A renderer obtained from get is called: it invokes its call capability
\* with the path it captured.
Invoke(reg, type) ==
  /\ reg \in LiveRegs
  /\ type \in DOMAIN cache[reg]
  /\ lastCall' = [NoCall EXCEPT !.op = "invoke", !.reg = reg, !.type = type,
                                !.renderer = <<cache[reg][type]>>,
                                !.value = cache[reg][type].fn,
                                !.path = cache[reg][type].path]
  /\ UNCHANGED <<cache, built, firstBuilt>>
  /\ ConfigUnchanged /\ RenderUnchanged /\ RegistryFrame

\* -------------------------------------------------------------------------
\* createDualRegistry(...).render(type, ctx, preferStreaming)
\* -------------------------------------------------------------------------
\* rdpc: "idle" | "streaming" (inside yield* renderer(ctx)) | "syncWait"
\* (awaiting syncRenderer(ctx)) | "syncYielded" (suspended at the yield) |
\* "done" | "failed".  rdOut is what the generator has yielded, rdCalls the
\* calls made through the call capabilities, rdPath the branch taken.

\* const shouldStream = preferStreaming || isStreaming(type)
ShouldStreamBoth(type, preferStreaming) == preferStreaming /\ type \in isStreaming
ShouldStream(type, preferStreaming) == preferStreaming \/ type \in isStreaming

\* this.streaming.get(type) / this.sync.get(type) returned a renderer
StreamingRendererMissing == thisStreaming = "empty"
StreamingRendererFound == thisStreaming = "built"
SyncRendererFound == thisSync = "built"

\* The else branch of `if (syncRenderer)`
NoRendererCompletes(type) == [pc |-> "done", error |-> <<>>]
NoRenderer(type) ==
  [pc |-> "failed", error |-> <<"No renderer found for component type", type>>]

\* render is called and runs to its first suspension
DRender(type, preferStreaming) ==
  /\ gpc = "dual"
  /\ rdpc \in {"idle", "done", "failed"}
  /\ rdType' = type /\ rdPrefer' = preferStreaming
  /\ rdOut' = <<>>
  /\ IF ShouldStream(type, preferStreaming) /\ StreamingRendererFound
       THEN /\ DoGet("dualStreaming", type)
            /\ rdPath' = "streaming"
            /\ rdCalls' = <<[fn |-> GetResult("dualStreaming", type).fn,
                             path |-> GetResult("dualStreaming", type).path]>>
            /\ rdLen' \in 0..MaxStream
            /\ rdError' = <<>>
            /\ rdpc' = "streaming"
       ELSE IF SyncRendererFound
         THEN /\ DoGet("dualSync", type)
              /\ rdPath' = "sync"
              /\ rdCalls' = <<[fn |-> GetResult("dualSync", type).fn,
                               path |-> GetResult("dualSync", type).path]>>
              /\ rdLen' = 0
              /\ rdError' = <<>>
              /\ rdpc' = "syncWait"
         ELSE /\ UNCHANGED <<cache, built, firstBuilt>>
              /\ rdPath' = "none"
              /\ rdCalls' = <<>>
              /\ rdLen' = 0
              /\ rdError' = NoRenderer(type).error
              /\ rdpc' = NoRenderer(type).pc
  /\ UNCHANGED lastCall
  /\ ConfigUnchanged /\ RegistryFrame

RenderStep ==
  /\ UNCHANGED <<cache, built, firstBuilt, lastCall, rdType, rdPrefer, rdPath,
                 rdLen, rdCalls>>
  /\ ConfigUnchanged /\ RegistryFrame

\* callStreaming delivers its next output, which render yields
DStreamYieldLatest ==
  /\ rdpc = "streaming"
  /\ Len(rdOut) < rdLen
  /\ rdOut' = Append(rdOut, rdLen)
  /\ UNCHANGED <<rdError, rdpc>>
  /\ RenderStep
DStreamYield ==
  /\ rdpc = "streaming"
  /\ Len(rdOut) < rdLen
  /\ rdOut' = Append(rdOut, Len(rdOut) + 1)
  /\ UNCHANGED <<rdError, rdpc>>
  /\ RenderStep

\* callStreaming is exhausted: yield* returns, render returns
DStreamEnd ==
  /\ rdpc = "streaming"
  /\ Len(rdOut) = rdLen
  /\ rdpc' = "done"
  /\ UNCHANGED <<rdOut, rdError>>
  /\ RenderStep

\* callSync resolves: render yields the awaited value
DSyncResolve ==
  /\ rdpc = "syncWait"
  /\ rdOut' = Append(rdOut, 1)
  /\ rdpc' = "syncYielded"
  /\ UNCHANGED rdError
  /\ RenderStep

\* the consumer asks for more after the yield: render returns
DSyncReturn ==
  /\ rdpc = "syncYielded"
  /\ rdpc' = "done"
  /\ UNCHANGED <<rdOut, rdError>>
  /\ RenderStep

\* the call capability rejects: the error propagates out of render
DCallReject ==
  /\ rdpc \in {"streaming", "syncWait"}
  /\ rdpc' = "failed"
  /\ rdError' = <<"call rejected">>
  /\ UNCHANGED rdOut
  /\ RenderStep

RegistryNext ==
  \/ \E reg \in Regs, type \in Types : Get(reg, type)
  \/ \E reg \in Regs, type \in Types : Has(reg, type)
  \/ \E reg \in Regs, type \in Types : Register(reg, type, Foreign)
  \/ \E reg \in Regs, type \in Types : Invoke(reg, type)
  \/ \E type \in Types, preferStreaming \in BOOLEAN : DRender(type, preferStreaming)
  \/ DStreamYield
  \/ DStreamEnd
  \/ DSyncResolve
  \/ DSyncReturn
  \/ DCallReject

DualNext ==
  \/ \E reg \in Regs, type \in Types : Get(reg, type)
  \/ \E reg \in Regs, type \in Types : Has(reg, type)
  \/ \E reg \in Regs, type \in Types : Invoke(reg, type)
  \/ \E type \in Types, preferStreaming \in BOOLEAN : DRender(type, preferStreaming)
  \/ DStreamYield
  \/ DStreamEnd
  \/ DSyncResolve
  \/ DSyncReturn
  \/ DCallReject

RegistriesInit == RegistryInit \/ DualInit

SpecRegistries == RegistriesInit /\ [][RegistryNext]_vars
SpecDual == DualInit /\ [][DualNext]_vars
SpecDualAny == DualInitAny /\ [][DualNext]_vars

\* -------------------------------------------------------------------------
\* Properties of the registries
\* -------------------------------------------------------------------------

\* C11: in every registry instance (client, checked, streaming and each
\* sub-registry of the dual registry), whatever get / has / register calls
\* have been made, at most one renderer has been constructed per type; the
\* cache holds exactly the renderers first constructed (no entry is ever
\* removed or replaced, and a get for one type leaves the other entries as
\* they were); and a get returns the renderer first constructed for its type.
RegistryConstructsOncePerType ==
  /\ \A reg \in Regs :
       /\ cache[reg] = firstBuilt[reg]
       /\ DOMAIN built[reg] = DOMAIN cache[reg]
       /\ \A t \in DOMAIN built[reg] : built[reg][t] = 1
  /\ lastCall.op = "get" =>
       /\ lastCall.type \in DOMAIN firstBuilt[lastCall.reg]
       /\ lastCall.renderer = <<firstBuilt[lastCall.reg][lastCall.type]>>

\* A get answered from the cache of a registry that holds both types
RegistryCachedGetWitness ==
  /\ lastCall.op = "get"
  /\ lastCall.value = "cached"
  /\ DOMAIN cache[lastCall.reg] = Types

\* C14: register on the client and on the checked registry always throws and
\* leaves the cache as it was, so that the cache only ever holds, and get
\* only ever returns, renderers backed by the call capability that the
\* registry built itself for the requested type.
RegisterAlwaysThrows ==
  /\ lastCall.op = "register" => lastCall.threw
  /\ \A reg \in {"client", "checked"} : \A t \in DOMAIN cache[reg] :
       /\ cache[reg][t] # Foreign
       /\ cache[reg][t].fn = "call"
       /\ cache[reg][t].reg = reg /\ cache[reg][t].type = t
  /\ (lastCall.op = "get" /\ lastCall.reg \in {"client", "checked"}) =>
       /\ lastCall.renderer[1].fn = "call"
       /\ lastCall.renderer[1].type = lastCall.type

\* register was refused for a type whose renderer the registry already holds
RegisterRefusedWitness ==
  /\ lastCall.op = "register"
  /\ lastCall.reg = "checked"
  /\ lastCall.renderer = <<Foreign>>
  /\ lastCall.type \in DOMAIN cache["checked"]

\* C15: has on the client and on the streaming registry answers true for
\* every type, has on the checked registry answers exactly what the existence
\* check reports for the type's path, and no has changes any cache.
HasIsOptimisticOrChecked ==
  /\ [](lastCall.op = "has" =>
          /\ lastCall.reg \in {"client", "streaming"} => lastCall.value = "true"
          /\ lastCall.reg = "checked" =>
               (lastCall.value = "true" <=> BuildPath(lastCall.type) \in procedures))
  /\ [][(lastCall'.op = "has" /\ lastCall' # lastCall) => cache' = cache]_vars

\* The checked registry denies a type for which it has handed out a renderer,
\* while the client registry beside it has cached one too
HasCheckedDeniesWitness ==
  /\ lastCall.op = "has"
  /\ lastCall.reg = "checked"
  /\ lastCall.value = "false"
  /\ lastCall.type \in DOMAIN cache["checked"]

\* The calls made through the call capabilities, with the type they are for
CallsMade ==
  {<<rdType, rdCalls[i].path>> : i \in 1..Len(rdCalls)} \cup
  (IF lastCall.op = "invoke" THEN {<<lastCall.type, lastCall.path>>} ELSE {})

\* C16 as stated: every call is made with the path
\* <<"components", namespace, type>> when a namespace was given in the
\* options and <<"components", type>> when none was.
PathHasNamespaceWhenConfigured ==
  \A c \in CallsMade :
    c[2] = IF namespace # <<>>
             THEN <<"components", namespace[1], c[1]>>
             ELSE <<"components", c[1]>>

\* C16: every call is made with the path <<"components", namespace, type>>
\* when a non-empty namespace was given and <<"components", type>> when the
\* namespace is absent or the empty string.
PathHasNamespaceWhenNonEmpty ==
  \A c \in CallsMade :
    c[2] = IF namespace \in {<<>>, <<"">>}
             THEN <<"components", c[1]>>
             ELSE <<"components", namespace[1], c[1]>>

\* A renderer built under the empty namespace has been called
PathEmptyNamespaceWitness ==
  /\ namespace = <<"">>
  /\ lastCall.op = "invoke"
  /\ lastCall.path = <<"components", lastCall.type>>

\* C12: render takes the streaming path exactly when preferStreaming is set
\* or the type is a streaming type; on the other path it makes exactly one
\* call, the sync call, and yields its value alone before completing (nothing
\* when that call rejects, which makes render fail).
RenderStreamsIffPreferredOrStreaming ==
  rdpc # "idle" =>
    /\ rdPath = "streaming" <=> (rdPrefer \/ rdType \in isStreaming)
    /\ rdPath \in {"streaming", "sync"}
    /\ rdPath = "streaming" =>
         /\ Len(rdCalls) = 1 /\ rdCalls[1].fn = "callStreaming"
         /\ rdpc \in {"streaming", "done", "failed"}
    /\ rdPath = "sync" =>
         /\ Len(rdCalls) = 1 /\ rdCalls[1].fn = "callSync"
         /\ rdpc \in {"syncWait", "syncYielded", "done", "failed"}
         /\ rdpc = "syncWait" => rdOut = <<>>
         /\ rdpc \in {"syncYielded", "done"} => Len(rdOut) = 1
         /\ rdpc = "failed" => rdOut = <<>> /\ rdError = <<"call rejected">>

\* A streaming-capable registry rendered a non-streaming type the sync way
RenderSyncWitness ==
  /\ rdpc = "done"
  /\ rdPath = "sync"
  /\ ~rdPrefer
  /\ isStreaming = Types \ {rdType}
  /\ Len(rdOut) = 1

\* C13: when the streaming path is selected but this.streaming.get gives no
\* renderer, render goes the sync way; when no renderer is obtained at all,
\* render fails with "No renderer found for component type" and yields
\* nothing, rather than completing.
RenderFallsBackOrFails ==
  rdpc # "idle" =>
    /\ (thisStreaming = "empty" /\ thisSync = "built") =>
         /\ rdPath = "sync"
         /\ Len(rdCalls) = 1 /\ rdCalls[1].fn = "callSync"
    /\ (thisSync = "empty" /\
        (thisStreaming = "empty" \/ ~(rdPrefer \/ rdType \in isStreaming))) =>
         /\ rdpc = "failed"
         /\ rdError = <<"No renderer found for component type", rdType>>
         /\ rdOut = <<>> /\ rdCalls = <<>>

\* The streaming path was selected, gave no renderer, and the sync renderer
\* delivered instead
RenderFallbackWitness ==
  /\ thisStreaming = "empty" /\ thisSync = "built"
  /\ rdPrefer /\ rdType \in isStreaming
  /\ rdpc = "done" /\ rdOut = <<1>>

\* =========================================================================
\* createHydrate (src/unnamed/part_003)
\* =========================================================================
\* A descriptor is a record: its type, its props (a map from names to values),
\* its key ("undefined" when it has none) and its children, with hasChildren
\* telling a missing children field from an empty one.  The root handed to
\* hydrate is <<d>> for a descriptor d and <<>> for null.
\* A hydrated value is NullResult, the value onNull produces, the value
\* onFragment produces from a list, or the element createElement produces;
\* createElement is an uninterpreted constructor, and every call of it is
\* logged in order together with the descriptor type it was made for.

NoProps == [n \in {} |-> ""]
SomeProps == [n \in {"key", "x"} |-> IF n = "key" THEN "own" ELSE "1"]

\* type, props and key of the descriptors considered: "a" is in the component
\* map (with and without props and key), "b" is not
Heads ==
  { [type |-> "a", props |-> NoProps, key |-> "undefined"],
    [type |-> "a", props |-> SomeProps, key |-> "k"],
    [type |-> "b", props |-> NoProps, key |-> "undefined"],
    [type |-> "__null__", props |-> NoProps, key |-> "undefined"],
    [type |-> "__fragment__", props |-> NoProps, key |-> "undefined"] }

Desc(h, hasChildren, children) ==
  [type |-> h.type, props |-> h.props, key |-> h.key,
   hasChildren |-> hasChildren, children |-> children]

RECURSIVE TreesN(_), ForestsN(_)
\* The descriptors of exactly n nodes
TreesN(n) ==
  IF n = 1
    THEN {Desc(h, FALSE, <<>>) : h \in Heads} \cup {Desc(h, TRUE, <<>>) : h \in Heads}
    ELSE {Desc(h, TRUE, f) : h \in Heads, f \in ForestsN(n - 1)}
\* The lists of descriptors of n nodes in all
ForestsN(n) ==
  IF n = 0
    THEN {<<>>}
    ELSE UNION { {<<t>> \o f : t \in TreesN(k), f \in ForestsN(n - k)} : k \in 1..n }

Descriptors == UNION {TreesN(n) : n \in 1..MaxNodes}

HydrateOptions ==
  [fallback : {"none", "Fallback"},
   onNull : {"none", "value", "null"},
   onFragment : {"none", "combine"}]

NullResult == [kind |-> "null"]

\* onNull?.() ?? null
OnNullIgnored == NullResult
OnNullResult ==
  IF hopts.onNull = "value" THEN [kind |-> "onNull"] ELSE NullResult

\* components[descriptor.type] ?? fallback ("none" when both are undefined)
ComponentFor(type) ==
  IF type = "a" THEN "A" ELSE hopts.fallback

\* { ...descriptor.props, key: descriptor.key }
ElementPropsUnmerged(d) == d.props
ElementProps(d) == MapSet(d.props, "key", d.key)

\* createElement(Component, props, hydratedChildren)
CreateElement(d, hydratedChildren) ==
  [kind |-> "element", component |-> ComponentFor(d.type),
   props |-> ElementProps(d),
   hasChildren |-> d.hasChildren, children |-> hydratedChildren]

RECURSIVE ConcatAll(_)
ConcatAll(seqs) ==
  IF seqs = <<>> THEN <<>> ELSE Head(seqs) \o ConcatAll(Tail(seqs))

\* children.filter(c => c !== null)
KeepAll(children) == children
NonNull(children) == SelectSeq(children, LAMBDA c : c # NullResult)

\* children[0] ?? null
LastChild(children) ==
  IF children = <<>> THEN NullResult ELSE children[Len(children)]
FirstChildOrOnNull(children) ==
  IF children = <<>> \/ children[1] = NullResult
    THEN OnNullResult ELSE children[1]
FirstChild(children) ==
  IF children = <<>> THEN NullResult ELSE children[1]

\* `if (!Component) { log.warn(...); return null; }`
UnknownCreates(d) ==
  [result |-> CreateElement(d, <<>>),
   calls |-> <<[for |-> d.type, element |-> CreateElement(d, <<>>)]>>]
UnknownComponent(d) == [result |-> NullResult, calls |-> <<>>]

RECURSIVE HydrateNode(_)
\* hydrate(descriptor, createElement) for a descriptor that is not null:
\* the value returned and the createElement calls made
HydrateNode(d) ==
  IF d.type = "__null__"
    THEN [result |-> OnNullResult, calls |-> <<>>]
    ELSE IF d.type \notin {"__fragment__"} /\ ComponentFor(d.type) = "none"
      THEN UnknownComponent(d)
      ELSE
        LET hyd == [i \in 1..Len(d.children) |-> HydrateNode(d.children[i])]
            children == [i \in 1..Len(d.children) |-> hyd[i].result]
            calls == ConcatAll([i \in 1..Len(d.children) |-> hyd[i].calls])
        IN  IF d.type = "__fragment__"
              THEN IF hopts.onFragment # "none"
                     THEN [result |-> [kind |-> "fragment",
                                       children |-> NonNull(children)],
                           calls |-> calls]
                     ELSE [result |-> FirstChild(children), calls |-> calls]
              ELSE [result |-> CreateElement(d, children),
                    calls |-> Append(calls,
                                [for |-> d.type,
                                 element |-> CreateElement(d, children)])]

\* hydrate(descriptor, createElement)
Hydrate(root) ==
  IF root = <<>>
    THEN [result |-> OnNullResult, calls |-> <<>>]
    ELSE HydrateNode(root[1])

HydrateInit ==
  /\ now = Epoch /\ MergeOff /\ ThrottleOff /\ DebounceOff /\ RendererOff
  /\ RegistryOff /\ UtilOff
  /\ descriptor \in {<<>>} \cup {<<d>> : d \in Descriptors}
  /\ hopts \in HydrateOptions
  /\ hResult = <<>>
  /\ hpc = "ready"

HydrateFrame == UNCHANGED <<mvars, now, tvars, dvars, rvars, gvars, uvars>>

\* The hydrate function createHydrate(options) returned is called
HydrateCall ==
  /\ hpc = "ready"
  /\ hResult' = Hydrate(descriptor)
  /\ hpc' = "done"
  /\ UNCHANGED <<descriptor, hopts>>
  /\ HydrateFrame

HydrateNext == HydrateCall

SpecHydrate == HydrateInit /\ [][HydrateNext]_vars

\* -------------------------------------------------------------------------
\* Properties of hydrate
\* -------------------------------------------------------------------------

\* The root descriptor once hydrate has returned (it is not null)
Root == descriptor[1]
Returned == hpc = "done" /\ descriptor # <<>>
\* What hydrating the i-th child of the root on its own returns
ChildResult(i) == Hydrate(<<Root.children[i]>>).result
CallsFor == {hResult.calls[i].for : i \in 1..Len(hResult.calls)}

\* C17: with no onFragment, hydrating a fragment returns what its first child
\* hydrates to and nothing of the other children, and null when it has no
\* children.
FragmentGivesFirstChild ==
  (Returned /\ Root.type = "__fragment__" /\ hopts.onFragment = "none") =>
    hResult.result = IF Root.children = <<>> THEN NullResult ELSE ChildResult(1)

\* A fragment of two children that hydrate differently, the first to an element
FragmentFirstChildWitness ==
  /\ Returned /\ Root.type = "__fragment__" /\ hopts.onFragment = "none"
  /\ Len(Root.children) = 2
  /\ ChildResult(1) # ChildResult(2)
  /\ hResult.result.kind = "element"
  /\ Len(hResult.calls) = 2

\* The positions of the root's children that do not hydrate to null
NonNullPositions == {i \in 1..Len(Root.children) : ChildResult(i) # NullResult}
\* The k-th of them
KthNonNull(k) ==
  CHOOSE i \in NonNullPositions :
    Cardinality({j \in NonNullPositions : j <= i}) = k

\* C18: with onFragment, hydrating a fragment returns onFragment applied to
\* the list of what its children hydrate to, the nulls left out and the rest
\* in their order.
FragmentCombinesNonNull ==
  (Returned /\ Root.type = "__fragment__" /\ hopts.onFragment = "combine") =>
    /\ hResult.result.kind = "fragment"
    /\ Len(hResult.result.children) = Cardinality(NonNullPositions)
    /\ \A k \in 1..Cardinality(NonNullPositions) :
         hResult.result.children[k] = ChildResult(KthNonNull(k))

\* The combiner was given the second child only: the first hydrated to null
FragmentCombineWitness ==
  /\ Returned /\ Root.type = "__fragment__" /\ hopts.onFragment = "combine"
  /\ Len(Root.children) = 2
  /\ ChildResult(1) = NullResult
  /\ hResult.result.children = <<ChildResult(2)>>
  /\ ChildResult(2).kind = "element"

\* C19: without a fallback, a node whose type is not in the component map
\* hydrates to null and createElement is called for no node of its subtree,
\* while its parent and siblings are hydrated as usual, the parent being
\* given null at the node's position.
UnknownTypeGivesNull ==
  (Returned /\ hopts.fallback = "none") =>
    /\ "b" \notin CallsFor
    /\ Root.type = "b" => hResult.result = NullResult /\ hResult.calls = <<>>
    /\ Root.type = "a" =>
         /\ hResult.result.kind = "element"
         /\ Len(hResult.result.children) = Len(Root.children)
         /\ \A i \in 1..Len(Root.children) :
              /\ hResult.result.children[i] = ChildResult(i)
              /\ Root.children[i].type = "b" => ChildResult(i) = NullResult
         /\ Len(hResult.calls) >=
              1 + Cardinality({i \in 1..Len(Root.children) :
                                 Root.children[i].type = "a"})

\* A mapped parent of an unmapped child and a mapped one
UnknownChildWitness ==
  /\ Returned /\ hopts.fallback = "none"
  /\ Root.type = "a"
  /\ Len(Root.children) = 2
  /\ Root.children[1].type = "b"
  /\ hResult.result.children[1] = NullResult
  /\ hResult.result.children[2].kind = "element"
  /\ Len(hResult.calls) = 2

\* What onNull is configured to give
ConfiguredOnNull ==
  IF hopts.onNull = "value" THEN [kind |-> "onNull"] ELSE NullResult

\* C20: a null root and every "__null__" node hydrate to what onNull gives
\* (null when there is no onNull), and createElement is not called for them.
NullGivesOnNull ==
  hpc = "done" =>
    /\ "__null__" \notin CallsFor
    /\ (descriptor = <<>> \/ Root.type = "__null__") =>
         hResult.result = ConfiguredOnNull /\ hResult.calls = <<>>
    /\ (descriptor # <<>> /\ Root.type = "a") =>
         \A i \in 1..Len(Root.children) :
           Root.children[i].type = "__null__" =>
             hResult.result.children[i] = ConfiguredOnNull

\* A "__null__" child with a child of its own, under a configured onNull
NullChildWitness ==
  /\ Returned /\ hopts.onNull = "value"
  /\ Root.type = "a"
  /\ Len(Root.children) = 1
  /\ Root.children[1].type = "__null__"
  /\ Len(Root.children[1].children) = 1
  /\ hResult.result.children = <<[kind |-> "onNull"]>>
  /\ Len(hResult.calls) = 1

\* How many createElement calls hydrating the first n children of the root
\* on their own makes
RECURSIVE ChildCalls(_)
ChildCalls(n) ==
  IF n = 0 THEN 0
  ELSE ChildCalls(n - 1) + Len(Hydrate(<<Root.children[n]>>).calls)

\* C21: for a node whose component resolves (from the map or the fallback),
\* createElement is called exactly once for it, after the calls for its
\* children, with the resolved component, with the node's props in which
\* "key" is set to the node's key, and with what its children hydrate to, one
\* per child and in the children's order (no list when the node has no
\* children field); what that call returns is what hydrate returns.
CreateElementOncePerNode ==
  (Returned /\ Root.type \in {"a", "b"}
            /\ (Root.type = "a" \/ hopts.fallback # "none")) =>
    LET r == hResult.result
        last == hResult.calls[Len(hResult.calls)]
    IN  /\ Len(hResult.calls) = 1 + ChildCalls(Len(Root.children))
        /\ last.for = Root.type /\ last.element = r
        /\ r.kind = "element"
        /\ r.component = IF Root.type = "a" THEN "A" ELSE hopts.fallback
        /\ DOMAIN r.props = DOMAIN Root.props \cup {"key"}
        /\ r.props["key"] = Root.key
        /\ \A n \in DOMAIN Root.props \ {"key"} : r.props[n] = Root.props[n]
        /\ r.hasChildren = Root.hasChildren
        /\ Len(r.children) = Len(Root.children)
        /\ \A i \in 1..Len(Root.children) : r.children[i] = ChildResult(i)

\* A keyed node with props of its own and two children that hydrate
\* differently
CreateElementWitness ==
  /\ Returned /\ Root.type = "a"
  /\ Root.key = "k" /\ Root.props = SomeProps
  /\ Len(Root.children) = 2
  /\ ChildResult(1) # ChildResult(2)
  /\ hResult.result.props["key"] = "k"
  /\ Len(hResult.calls) = 3

\* =========================================================================
\* Descriptor utilities (src/unnamed/part_003): walkDescriptor,
\* transformDescriptor, getUsedTypes, validateDescriptor,
\* serializeDescriptor / parseDescriptor, compactDescriptor
\* =========================================================================
\* Here a descriptor is a JavaScript object as such: a function from the
\* names of the fields it has to their values, so that a missing field and
\* a field holding undefined are different objects.  The fields are type (a
\* string), props (an object of primitive values), children (a list of
\* descriptors) and key (a primitive).  Undefined stands for the value
\* undefined.

Undefined == "undefined"
NaNValue == "NaN"
NullValue == "null"
LossyProps == [n \in {"x", "y"} |-> IF n = "x" THEN NaNValue ELSE Undefined]

\* type, props and key of the descriptors considered: plain, with props and
\* key, with props holding NaN and undefined and a key field holding
\* undefined, and the sentinels
UHeads ==
  { [type |-> "a", props |-> NoProps],
    [type |-> "a", props |-> SomeProps, key |-> "k"],
    [type |-> "b", props |-> LossyProps, key |-> Undefined],
    [type |-> "__null__", props |-> NoProps],
    [type |-> "__fragment__", props |-> NoProps] }

WithField(o, name, value) ==
  [n \in DOMAIN o \cup {name} |-> IF n = name THEN value ELSE o[n]]

RECURSIVE ObjectsN(_), ObjectListsN(_)
\* The descriptors of exactly n nodes
ObjectsN(n) ==
  IF n = 1
    THEN UHeads \cup {WithField(h, "children", <<>>) : h \in UHeads}
    ELSE {WithField(h, "children", f) : h \in UHeads, f \in ObjectListsN(n - 1)}
\* The lists of descriptors of n nodes in all
ObjectListsN(n) ==
  IF n = 0
    THEN {<<>>}
    ELSE UNION { {<<t>> \o f : t \in ObjectsN(k), f \in ObjectListsN(n - k)} : k \in 1..n }

Objects == UNION {ObjectsN(n) : n \in 1..MaxTree}

\* `if (descriptor.children)`: a list, even an empty one, is truthy
HasChildren(d) == "children" \in DOMAIN d

\* `children[${index}]`
ChildSegment(index) == "children[" \o ToString(index) \o "]"

\* walkDescriptor: the visitor first, then the children
VisitAfter(self, below) == below \o self
VisitOrder(self, below) == self \o below

RECURSIVE WalkDescriptor(_, _)
\* walkDescriptor(descriptor, visitor, path): the visitor's calls, in order
WalkDescriptor(d, path) ==
  VisitOrder(<<[node |-> d, path |-> path]>>,
             IF HasChildren(d)
               THEN ConcatAll([i \in 1..Len(d.children) |->
                      WalkDescriptor(d.children[i],
                                     Append(path, ChildSegment(i - 1)))])
               ELSE <<>>)

\* getUsedTypes: `node.type !== "__null__" && node.type !== "__fragment__"`
CountedButNull(type) == type # "__null__"
Counted(type) == type # "__null__" /\ type # "__fragment__"

\* Set.add: a Set keeps its members in insertion order
SetAdd(members, x) ==
  IF \E i \in 1..Len(members) : members[i] = x THEN members ELSE Append(members, x)

RECURSIVE CollectTypes(_, _)
\* the visitor of getUsedTypes run over the visits, adding to types
CollectTypes(visits, types) ==
  IF visits = <<>>
    THEN types
    ELSE CollectTypes(Tail(visits),
                      IF Counted(Head(visits).node.type)
                        THEN SetAdd(types, Head(visits).node.type)
                        ELSE types)

\* getUsedTypes(descriptor): the Set, as the list of its members in order
GetUsedTypes(d) == CollectTypes(WalkDescriptor(d, <<>>), <<>>)

\* validateDescriptor: `known.has(type)`
IsKnownAlways(known, type) == TRUE
IsKnown(known, type) == type \in known

\* validateDescriptor(descriptor, knownTypes)
ValidateDescriptor(d, knownTypes) ==
  LET used == GetUsedTypes(d)
      unknownTypes == SelectSeq(used, LAMBDA t : ~IsKnown(knownTypes, t))
  IN  [valid |-> Len(unknownTypes) = 0, unknownTypes |-> unknownTypes]

KnownTypeSets == SUBSET {"a", "b"}

UtilInit ==
  /\ now = Epoch /\ MergeOff /\ ThrottleOff /\ DebounceOff /\ RendererOff
  /\ RegistryOff /\ HydrateOff
  /\ uTree \in Objects
  /\ uOp = "none" /\ uArg = <<>> /\ uOut = <<>>
  /\ upc = "ready"

UtilFrame == UNCHANGED <<mvars, now, tvars, dvars, rvars, gvars, hvars>>

\* walkDescriptor(uTree, visitor) with a visitor that records its arguments
UWalk ==
  /\ upc = "ready"
  /\ uOp' = "walk" /\ uArg' = <<>>
  /\ uOut' = WalkDescriptor(uTree, <<>>)
  /\ upc' = "done"
  /\ UNCHANGED uTree
  /\ UtilFrame

\* getUsedTypes(uTree)
UGetUsedTypes ==
  /\ upc = "ready"
  /\ uOp' = "getUsedTypes" /\ uArg' = <<>>
  /\ uOut' = GetUsedTypes(uTree)
  /\ upc' = "done"
  /\ UNCHANGED uTree
  /\ UtilFrame

\* validateDescriptor(uTree, knownTypes)
UValidate(knownTypes) ==
  /\ upc = "ready"
  /\ uOp' = "validate" /\ uArg' = <<knownTypes>>
  /\ uOut' = ValidateDescriptor(uTree, knownTypes)
  /\ upc' = "done"
  /\ UNCHANGED uTree
  /\ UtilFrame

\* -------------------------------------------------------------------------
\* compactDescriptor
\* -------------------------------------------------------------------------

\* `descriptor.children && descriptor.children.length > 0`
KeepsChildrenField(d) == HasChildren(d)
KeepsChildren(d) == HasChildren(d) /\ Len(d.children) > 0

\* `descriptor.key !== undefined`
KeepsKey(d) == "key" \in DOMAIN d /\ d.key # Undefined

\* descriptor.children.map(compactDescriptor): as many items as children
MappedShort(d) == Len(d.children) - 1
Mapped(d) == Len(d.children)

RECURSIVE CompactDescriptor(_)
\* compactDescriptor(descriptor)
CompactDescriptor(d) ==
  LET result == [type |-> d.type, props |-> d.props]
      withChildren ==
        IF KeepsChildren(d)
          THEN WithField(result, "children",
                         [i \in 1..Mapped(d) |-> CompactDescriptor(d.children[i])])
          ELSE result
  IN  IF KeepsKey(d) THEN WithField(withChildren, "key", d.key) ELSE withChildren

\* compactDescriptor(uTree)
UCompact ==
  /\ upc = "ready"
  /\ uOp' = "compact" /\ uArg' = <<>>
  /\ uOut' = CompactDescriptor(uTree)
  /\ upc' = "done"
  /\ UNCHANGED uTree
  /\ UtilFrame

\* -------------------------------------------------------------------------
\* serializeDescriptor / parseDescriptor
\* -------------------------------------------------------------------------
\* A JSON text is modelled by the value it denotes: a string, null, an array
\* of values or an object, i.e. a set of named members.

\* JSON.stringify of a primitive: NaN is written as null
JsonPrimitive(v) ==
  IF v \in {NaNValue, NullValue}
    THEN [j |-> "null"]
    ELSE [j |-> "string", s |-> v]

\* JSON.stringify leaves out the members whose value is undefined
Written(o) == {n \in DOMAIN o : n \in {"props", "children"} \/ o[n] # Undefined}

\* JSON.stringify of an array: its elements in order
JsonItemsReversed(items) == [i \in 1..Len(items) |-> items[Len(items) + 1 - i]]
JsonItems(items) == items

RECURSIVE SerializeDescriptor(_)
\* serializeDescriptor(descriptor) = JSON.stringify(descriptor)
SerializeDescriptor(d) ==
  [j |-> "object",
   members |->
     [n \in Written(d) |->
        CASE n = "props" ->
               [j |-> "object",
                members |-> [m \in {m \in DOMAIN d.props : d.props[m] # Undefined}
                               |-> JsonPrimitive(d.props[m])]]
          [] n = "children" ->
               [j |-> "array",
                items |-> JsonItems([i \in 1..Len(d.children) |->
                                       SerializeDescriptor(d.children[i])])]
          [] OTHER -> JsonPrimitive(d[n])]]

\* JSON.parse of a primitive
ParsePrimitive(json) == IF json.j = "null" THEN NullValue ELSE json.s

RECURSIVE ParseDescriptor(_)
\* parseDescriptor(json) = JSON.parse(json)
ParseDescriptor(json) ==
  [n \in DOMAIN json.members |->
     CASE n = "props" ->
            [m \in DOMAIN json.members[n].members |->
               ParsePrimitive(json.members[n].members[m])]
       [] n = "children" ->
            [i \in 1..Len(json.members[n].items) |->
               ParseDescriptor(json.members[n].items[i])]
       [] OTHER -> ParsePrimitive(json.members[n])]

\* parseDescriptor(serializeDescriptor(uTree))
URoundTrip ==
  /\ upc = "ready"
  /\ uOp' = "roundTrip" /\ uArg' = <<>>
  /\ uOut' = ParseDescriptor(SerializeDescriptor(uTree))
  /\ upc' = "done"
  /\ UNCHANGED uTree
  /\ UtilFrame

\* -------------------------------------------------------------------------
\* transformDescriptor
\* -------------------------------------------------------------------------
\* Object identity matters here, so the descriptors live in a heap: a list of
\* cells, the address of a cell being its position.  An object cell holds
\* the fields of a descriptor, its children field holding the address of an
\* array cell; an array cell holds the addresses of its items.

ObjectCell(fields) == [cell |-> "object", fields |-> fields]
ArrayCell(items) == [cell |-> "array", items |-> items]

\* A new object or array: an object literal, a spread, the result of map
Alloc(heap, cell) == [heap |-> Append(heap, cell), addr |-> Len(heap) + 1]

RECURSIVE StoreNode(_, _), StoreList(_, _)
\* The descriptor o built as objects of the heap
StoreNode(heap, o) ==
  IF HasChildren(o)
    THEN LET kids == StoreList(heap, o.children)
             arr == Alloc(kids.heap, ArrayCell(kids.addrs))
         IN  Alloc(arr.heap, ObjectCell(WithField(o, "children", arr.addr)))
    ELSE Alloc(heap, ObjectCell(o))
StoreList(heap, list) ==
  IF list = <<>>
    THEN [heap |-> heap, addrs |-> <<>>]
    ELSE LET first == StoreNode(heap, Head(list))
             rest == StoreList(first.heap, Tail(list))
         IN  [heap |-> rest.heap, addrs |-> <<first.addr>> \o rest.addrs]

RECURSIVE Load(_, _)
\* The descriptor that the object at addr is, read through the heap
Load(heap, addr) ==
  LET fields == heap[addr].fields
  IN  IF "children" \in DOMAIN fields
        THEN WithField(fields, "children",
                       [i \in 1..Len(heap[fields.children].items) |->
                          Load(heap, heap[fields.children].items[i])])
        ELSE fields

\* The transforms considered; none of them writes to an existing object.
\*   identity      node => node
\*   rename        node => ({ ...node, type: "z" })
\*   dropChildren  node => ({ type: node.type, props: node.props })
\*   expand        node => node.type === "b"
\*                   ? { type: "__fragment__", props: {},
\*                       children: [{ type: "a", props: {} }] }
\*                   : node
Transforms == {"identity", "rename", "dropChildren", "expand"}

\* transform(descriptor): the heap after the call and the object returned
ApplyTransform(fn, heap, addr) ==
  LET fields == heap[addr].fields
  IN  CASE fn = "rename" ->
             Alloc(heap, ObjectCell(WithField(fields, "type", "z")))
        [] fn = "dropChildren" ->
             Alloc(heap, ObjectCell([type |-> fields.type, props |-> fields.props]))
        [] fn = "expand" /\ fields.type = "b" ->
             LET leaf == Alloc(heap, ObjectCell([type |-> "a", props |-> NoProps]))
                 arr == Alloc(leaf.heap, ArrayCell(<<leaf.addr>>))
             IN  Alloc(arr.heap,
                       ObjectCell([type |-> "__fragment__", props |-> NoProps,
                                   children |-> arr.addr]))
        [] OTHER -> [heap |-> heap, addr |-> addr]

\* `transformed.children`, the list that is mapped
ChildrenOfOriginal(heap, original, transformed) ==
  IF "children" \in DOMAIN heap[original].fields
    THEN heap[heap[original].fields.children].items
    ELSE <<>>
ChildrenToRebuild(heap, original, transformed) ==
  heap[heap[transformed].fields.children].items

\* `{ ...transformed, children: <the mapped list> }`
RebuildInPlace(heap, transformed, list) ==
  [heap |-> [heap EXCEPT ![transformed] =
               ObjectCell(WithField(heap[transformed].fields, "children", list))],
   addr |-> transformed]
Rebuild(heap, transformed, list) ==
  Alloc(heap, ObjectCell(WithField(heap[transformed].fields, "children", list)))

RECURSIVE TransformDescriptor(_, _, _), TransformList(_, _, _)
\* transformDescriptor(descriptor, transform): the heap after the call and
\* the object returned
TransformDescriptor(fn, heap, addr) ==
  LET transformed == ApplyTransform(fn, heap, addr)
  IN  IF "children" \in DOMAIN transformed.heap[transformed.addr].fields
        THEN LET kids == TransformList(fn, transformed.heap,
                           ChildrenToRebuild(transformed.heap, addr,
                                             transformed.addr))
                 arr == Alloc(kids.heap, ArrayCell(kids.addrs))
             IN  Rebuild(arr.heap, transformed.addr, arr.addr)
        ELSE transformed
\* transformed.children.map(child => transformDescriptor(child, transform))
TransformList(fn, heap, addrs) ==
  IF addrs = <<>>
    THEN [heap |-> heap, addrs |-> <<>>]
    ELSE LET first == TransformDescriptor(fn, heap, Head(addrs))
             rest == TransformList(fn, first.heap, Tail(addrs))
         IN  [heap |-> rest.heap, addrs |-> <<first.addr>> \o rest.addrs]

\* transformDescriptor(uTree, transform), uTree being objects of the heap
UTransform(fn) ==
  /\ upc = "ready"
  /\ uOp' = "transform" /\ uArg' = <<fn>>
  /\ LET input == StoreNode(<<>>, uTree)
         output == TransformDescriptor(fn, input.heap, input.addr)
     IN  uOut' = [before |-> input.heap, root |-> input.addr,
                  after |-> output.heap, result |-> output.addr]
  /\ upc' = "done"
  /\ UNCHANGED uTree
  /\ UtilFrame

UtilNext ==
  \/ UWalk
  \/ UGetUsedTypes
  \/ \E knownTypes \in KnownTypeSets : UValidate(knownTypes)
  \/ UCompact
  \/ URoundTrip
  \/ \E fn \in Transforms : UTransform(fn)

SpecUtil == UtilInit /\ [][UtilNext]_vars

\* -------------------------------------------------------------------------
\* Properties of the descriptor utilities
\* -------------------------------------------------------------------------

UtilDone(op) == upc = "done" /\ uOp = op

\* The child-index annotations, by child position
Segments == <<"children[0]", "children[1]", "children[2]", "children[3]">>
IsSegment(seg) == \E k \in 1..Len(Segments) : Segments[k] = seg
SegmentIndex(seg) == CHOOSE k \in 1..Len(Segments) : Segments[k] = seg

RECURSIVE IsPath(_, _), NodeAt(_, _), CountNodes(_), CountList(_)
\* path leads from d to one of its nodes
IsPath(d, path) ==
  \/ path = <<>>
  \/ /\ HasChildren(d)
     /\ IsSegment(Head(path))
     /\ SegmentIndex(Head(path)) <= Len(d.children)
     /\ IsPath(d.children[SegmentIndex(Head(path))], Tail(path))
\* the node it leads to
NodeAt(d, path) ==
  IF path = <<>> THEN d
  ELSE NodeAt(d.children[SegmentIndex(Head(path))], Tail(path))
\* the number of nodes of d
CountNodes(d) == 1 + (IF HasChildren(d) THEN CountList(d.children) ELSE 0)
CountList(list) ==
  IF list = <<>> THEN 0 ELSE CountNodes(Head(list)) + CountList(Tail(list))

\* Depth-first pre-order, children left to right: p is an ancestor of q, or
\* they part at some depth where p goes to an earlier child
PathBefore(p, q) ==
  \/ Len(p) < Len(q) /\ SubSeq(q, 1, Len(p)) = p
  \/ \E k \in 1..Len(p) :
       /\ k <= Len(q)
       /\ SubSeq(p, 1, k - 1) = SubSeq(q, 1, k - 1)
       /\ SegmentIndex(p[k]) < SegmentIndex(q[k])

\* C22: walkDescriptor calls the visitor as many times as the tree has nodes,
\* each time with a path of child-index annotations that leads from the root
\* to the node passed with it, and the paths come in depth-first pre-order,
\* children left to right (so no node is visited twice).
WalkVisitsEachNodeInPreOrder ==
  UtilDone("walk") =>
    /\ Len(uOut) = CountNodes(uTree)
    /\ \A i \in 1..Len(uOut) :
         /\ IsPath(uTree, uOut[i].path)
         /\ uOut[i].node = NodeAt(uTree, uOut[i].path)
    /\ \A i, j \in 1..Len(uOut) : i < j => PathBefore(uOut[i].path, uOut[j].path)

\* A root with two children that differ
WalkWitness ==
  /\ UtilDone("walk")
  /\ Len(uOut) = 3
  /\ uOut[1].node = uTree /\ uOut[1].path = <<>>
  /\ uOut[2].path = <<"children[0]">>
  /\ uOut[3].path = <<"children[1]">>
  /\ uOut[3].node # uOut[2].node

RECURSIVE ReachObjects(_, _)
\* The objects of the tree at addr
ReachObjects(heap, addr) ==
  {addr} \cup
  (IF "children" \in DOMAIN heap[addr].fields
     THEN UNION {ReachObjects(heap, heap[heap[addr].fields.children].items[i]) :
                   i \in 1..Len(heap[heap[addr].fields.children].items)}
     ELSE {})

\* The objects of the heap whose children field is the array at arr
OwnersOf(heap, arr) ==
  {a \in 1..Len(heap) :
     /\ heap[a].cell = "object"
     /\ "children" \in DOMAIN heap[a].fields
     /\ heap[a].fields.children = arr}

\* C23: transformDescriptor (with a transform that writes to no object)
\* leaves every object and list that existed before the call as it was, so
\* the input still is the same tree; and every node of the result that has a
\* children field is an object made during the call whose children list was
\* made during the call and belongs to no other object.
TransformNeverMutates ==
  UtilDone("transform") =>
    /\ Len(uOut.after) >= Len(uOut.before)
    /\ \A a \in 1..Len(uOut.before) : uOut.after[a] = uOut.before[a]
    /\ Load(uOut.after, uOut.root) = uTree
    /\ \A a \in ReachObjects(uOut.after, uOut.result) :
         "children" \in DOMAIN uOut.after[a].fields =>
           /\ a > Len(uOut.before)
           /\ uOut.after[a].fields.children > Len(uOut.before)
           /\ OwnersOf(uOut.after, uOut.after[a].fields.children) = {a}

\* The identity transform over a root whose only child has a child: the
\* result is an equal tree of new objects
TransformCopyWitness ==
  /\ UtilDone("transform") /\ uArg = <<"identity">>
  /\ HasChildren(uTree) /\ Len(uTree.children) = 1
  /\ HasChildren(uTree.children[1]) /\ Len(uTree.children[1].children) = 1
  /\ uOut.result > Len(uOut.before)
  /\ Load(uOut.after, uOut.result) = uTree

\* What each transform returns for the node o
TransformOf(fn, o) ==
  CASE fn = "rename" -> WithField(o, "type", "z")
    [] fn = "dropChildren" -> [type |-> o.type, props |-> o.props]
    [] fn = "expand" /\ o.type = "b" ->
         [type |-> "__fragment__", props |-> NoProps,
          children |-> <<[type |-> "a", props |-> NoProps]>>]
    [] OTHER -> o

\* transformDescriptor(o, fn) as a tree
Transformed(fn, o) ==
  LET input == StoreNode(<<>>, o)
      output == TransformDescriptor(fn, input.heap, input.addr)
  IN  Load(output.heap, output.addr)

\* C24: transformDescriptor(d, fn) is fn(d) with its children replaced by
\* the transforms of the children of fn(d), one for one; when fn(d) has no
\* children field, it is fn(d), without a children field, whatever children
\* d had.
TransformRebuildsChildrenOfTransformed ==
  UtilDone("transform") =>
    LET t == TransformOf(uArg[1], uTree)
        r == Load(uOut.after, uOut.result)
    IN  IF HasChildren(t)
          THEN r = WithField(t, "children",
                     [i \in 1..Len(t.children) |-> Transformed(uArg[1], t.children[i])])
          ELSE r = t /\ ~HasChildren(r)

\* The transform dropped the children the root had
TransformDropWitness ==
  /\ UtilDone("transform") /\ uArg = <<"dropChildren">>
  /\ HasChildren(uTree) /\ Len(uTree.children) = 2
  /\ ~HasChildren(Load(uOut.after, uOut.result))

RECURSIVE NodeTypes(_)
\* The type values of the nodes of d
NodeTypes(d) ==
  {d.type} \cup
  (IF HasChildren(d)
     THEN UNION {NodeTypes(d.children[i]) : i \in 1..Len(d.children)}
     ELSE {})

Sentinels == {"__null__", "__fragment__"}
NoDuplicates(seq) == \A i, j \in 1..Len(seq) : seq[i] = seq[j] => i = j

\* C25: getUsedTypes returns a set whose members are exactly the type values
\* of the nodes of the tree other than "__null__" and "__fragment__"; no
\* sentinel is in it, wherever in the tree it occurs.
UsedTypesAreNodeTypesButSentinels ==
  UtilDone("getUsedTypes") =>
    /\ NoDuplicates(uOut)
    /\ Range(uOut) = NodeTypes(uTree) \ Sentinels
    /\ Range(uOut) \cap Sentinels = {}

\* Two component types above a sentinel at depth two
UsedTypesWitness ==
  /\ UtilDone("getUsedTypes")
  /\ uTree.type = "a"
  /\ HasChildren(uTree)
  /\ Len(uTree.children) = 1 /\ uTree.children[1].type = "b"
  /\ HasChildren(uTree.children[1])
  /\ Len(uTree.children[1].children) = 1
  /\ uTree.children[1].children[1].type \in Sentinels
  /\ uOut = <<"a", "b">>

\* C26: validateDescriptor returns (it does not throw) unknownTypes listing,
\* each once, exactly the used types of the tree that are not in knownTypes,
\* and valid true exactly when that list is empty; sentinel types are never
\* listed.
ValidateReportsUnknownUsedTypes ==
  UtilDone("validate") =>
    /\ NoDuplicates(uOut.unknownTypes)
    /\ Range(uOut.unknownTypes) = Range(GetUsedTypes(uTree)) \ uArg[1]
    /\ Range(uOut.unknownTypes) = (NodeTypes(uTree) \ Sentinels) \ uArg[1]
    /\ uOut.valid <=> uOut.unknownTypes = <<>>

\* A tree of a known type, an unknown type and a sentinel
ValidateWitness ==
  /\ UtilDone("validate") /\ uArg = <<{"a"}>>
  /\ NodeTypes(uTree) = {"a", "b", "__fragment__"}
  /\ uOut = [valid |-> FALSE, unknownTypes |-> <<"b">>]

RECURSIVE JsonSafe(_)
\* No prop and no key of the tree is undefined or NaN
JsonSafe(d) ==
  /\ \A n \in DOMAIN d.props : d.props[n] \notin {Undefined, NaNValue}
  /\ "key" \in DOMAIN d => d.key \notin {Undefined, NaNValue}
  /\ HasChildren(d) => \A i \in 1..Len(d.children) : JsonSafe(d.children[i])

CompactIsIdempotent ==
  UtilDone("compact") => CompactDescriptor(uOut) = uOut

\* Compaction changed a tree of three nodes
CompactChangedWitness ==
  /\ UtilDone("compact")
  /\ HasChildren(uTree)
  /\ Len(uTree.children) = 2
  /\ uOut # uTree
  /\ Len(uOut.children) = 2
  /\ uOut.children[1] # uTree.children[1]
  /\ CompactDescriptor(uOut) = uOut

RECURSIVE IsCompactOf(_, _)
\* r has type and props of d, children exactly when d has a non-empty
\* children list (as many, each the compact form of d's), key exactly when
\* d's key is set
IsCompactOf(r, d) ==
  /\ DOMAIN r =
       {"type", "props"}
       \cup (IF HasChildren(d) /\ d.children # <<>> THEN {"children"} ELSE {})
       \cup (IF "key" \in DOMAIN d /\ d.key # Undefined THEN {"key"} ELSE {})
  /\ r.type = d.type /\ r.props = d.props
  /\ "key" \in DOMAIN r => r.key = d.key /\ r.key # Undefined
  /\ "children" \in DOMAIN r =>
       /\ Len(r.children) = Len(d.children) /\ r.children # <<>>
       /\ \A i \in 1..Len(d.children) : IsCompactOf(r.children[i], d.children[i])

\* C29: every node of compactDescriptor(d) has type and props, children
\* only when the node of d it comes from had a non-empty children list (the
\* same number, in order, each compacted) and key only when that node's key
\* was set: no empty children list and no key holding undefined is left.
CompactKeepsOnlyWhatIsSet ==
  UtilDone("compact") => IsCompactOf(uOut, uTree)

\* Under a keyed root, a child with an empty children list and a key field
\* holding undefined comes out with type and props only
CompactDropsWitness ==
  /\ UtilDone("compact")
  /\ HasChildren(uTree)
  /\ Len(uTree.children) = 1
  /\ uTree.children[1] = [type |-> "b", props |-> LossyProps,
                          key |-> Undefined, children |-> <<>>]
  /\ uOut = [type |-> "a", props |-> SomeProps, key |-> "k",
             children |-> <<[type |-> "b", props |-> LossyProps]>>]

\* -------------------------------------------------------------------------
\* mergeStreams: the pulls in flight
\* -------------------------------------------------------------------------

\* C30: no input iterator of mergeStreams ever has two next() calls in
\* flight: of the calls made on an iterator, at most one has not settled.
MergeOnePullInFlight ==
  \A i \in DOMAIN issued : issued[i] - settled[i] <= 1

\* -------------------------------------------------------------------------
\* mergeStreams: completion
\* -------------------------------------------------------------------------

\* The consumer keeps pulling and every next() call on a (finite) input
\* settles.
SpecMergeLive ==
  /\ MergeInit
  /\ [][MergeNext]_vars
  /\ WF_vars(MPull)
  /\ \A i \in 1..MaxStreams : WF_vars(i \in DOMAIN streams /\ MSettle(i))

\* C31: with finite inputs and a consumer that keeps pulling, mergeStreams
\* eventually completes; it has completed only when no iterator is active
\* any more and every input has answered done; and with no inputs the first
\* pull completes it.
MergeCompletesWhenAllDone ==
  /\ <>(mpc = "done")
  /\ [](mpc = "done" =>
          /\ active = {}
          /\ \A i \in DOMAIN streams : settled[i] > streams[i])
  /\ [][(streams = <<>> /\ mpc = "suspended") => mpc' = "done"]_vars

\* C31 witness: a merge of two non-empty inputs has completed.
MergeCompletedWitness ==
  /\ mpc = "done"
  /\ DOMAIN streams = {1, 2}
  /\ streams[1] > 0 /\ streams[2] > 0
  /\ active = {}

\* C36: whatever the interleaving, every element of the output of
\* mergeStreams is an element of some input that a settled pull on that input
\* produced, and no produced element appears in the output twice.
MergeRelaysEachPullOnce ==
  /\ \A a \in DOMAIN merged :
       /\ merged[a] \in AllInputs
       /\ merged[a][2] <= settled[merged[a][1]]
  /\ \A a, b \in DOMAIN merged : a # b => merged[a] # merged[b]

\* C36 witness: a completed merge relayed three elements, taken from both
\* inputs.
MergeRelayWitness ==
  /\ mpc = "done"
  /\ Len(merged) = 3
  /\ {merged[a][1] : a \in DOMAIN merged} = {1, 2}

\* -------------------------------------------------------------------------
\* throttleStream: the end of the output
\* -------------------------------------------------------------------------

\* C37: once a non-empty source has ended, whatever the arrival times, the
\* output of throttleStream is not empty and its last element is the last
\* element of the source.
ThrottleEndsWithLastElement ==
  (SourceEnded /\ tLen > 0) =>
    /\ tOut # <<>>
    /\ tOut[Len(tOut)].v = tLen

\* C37 witness: of three elements the second and third were suppressed, and
\* the trailing flush delivered the third.
ThrottleLastElementWitness ==
  /\ tpc = "done" /\ tLen = 3
  /\ Len(tOut) = 2
  /\ tOut[1].v = 1 /\ ~tOut[1].flush
  /\ tOut[2].v = 3 /\ tOut[2].flush

\* -------------------------------------------------------------------------
\* debounceStream: the deferred-emit timer
\* -------------------------------------------------------------------------

\* C32: at most one timer of debounceStream is armed at any time, and it is
\* the timer of the latest arrival; an arrival leaves exactly its own timer
\* armed (the one armed before it is cancelled), so that whatever is put on
\* the output is the latest arrival and never a value a newer arrival has
\* superseded; and a timer that fires with a value in the latest slot emits
\* that value and clears the slot.
DebounceOneTimer ==
  /\ [](/\ Cardinality(armed) <= 1
        /\ \A t \in armed : t[1] = timer /\ t[1] = dArrived)
  /\ [][/\ dArrived' # dArrived =>
             /\ Cardinality(armed') = 1
             /\ \A t \in armed' : t[1] = dArrived'
        /\ dEmitted' # dEmitted =>
             /\ Len(dEmitted') = Len(dEmitted) + 1
             /\ dEmitted'[Len(dEmitted')].v = dArrived
             /\ dEmitted'[Len(dEmitted')].v = latest
             /\ dEmitted'[Len(dEmitted')].by = "timer" =>
                  /\ latest' = Null
                  /\ armed' = {}]_vars

\* C32 witness: the second element arrived before the timer of the first was
\* due; only the timer of the second fired, and it emitted the second.
DebounceSupersededWitness ==
  /\ dArrived = 2 /\ ~procDone
  /\ dArrivedAt[2] < dArrivedAt[1] + waitMs
  /\ now > dArrivedAt[1] + waitMs
  /\ Len(dEmitted) = 1
  /\ dEmitted[1].v = 2 /\ dEmitted[1].by = "timer"
  /\ latest = Null /\ armed = {}

\* -------------------------------------------------------------------------
\* debounceStream: the hand-over from the processor to the consumer
\* -------------------------------------------------------------------------

\* The consumer keeps pulling: it calls next() again after every value it
\* received, and a continuation queued as a microtask runs.
SpecDebounceLive ==
  /\ DebounceInit
  /\ [][DebounceNext]_vars
  /\ WF_vars(DPull)
  /\ WF_vars(DWake)

\* C34: the consumer of debounceStream is never blocked on the wake-up
\* signal while the output queue holds a value; what it has received followed
\* by what is queued is what was enqueued, in that order; and as long as it
\* keeps pulling, the k-th value enqueued (by a timer or by the final emit)
\* is eventually the k-th value it receives.
DebounceDeliversEveryOutput ==
  /\ [](dpc = "waiting" => outputs = <<>> /\ resolve = "fresh")
  /\ [](dYielded \o outputs = DebounceValues)
  /\ \A k \in 1..MaxSrc : (Len(dEmitted) >= k) ~> (Len(dYielded) >= k)

\* C34 witness: a timer enqueued the first value while the consumer was
\* blocked, the final emit enqueued the second, and the consumer has received
\* both.
DebounceDeliveredWitness ==
  /\ Len(dEmitted) = 2
  /\ dEmitted[1].by = "timer" /\ dEmitted[2].by = "flush"
  /\ dYielded = <<dEmitted[1].v, dEmitted[2].v>>
  /\ outputs = <<>>

\* -------------------------------------------------------------------------
\* debounceStream: the processor when the consumer stops pulling
\* -------------------------------------------------------------------------

\* The source delivers its elements and ends, and queued continuations run;
\* the consumer may stop calling next() at any point.
SpecDebounceUnattended ==
  /\ DebounceInit
  /\ [][DebounceNext]_vars
  /\ WF_vars(DArrive)
  /\ WF_vars(DEnd)
  /\ WF_vars(DWake)

\* C35: once the first pull has started debounceStream, the source is
\* drained to its end whether or not the consumer pulls again; a timer stops
\* being armed only because a newer arrival replaced it, the source ended or
\* it was due and ran; and every emitted value is added to the output queue,
\* which nothing but the consumer receiving its head ever shortens.
DebounceRunsWithoutConsumer ==
  /\ (dpc # "start") ~> (procDone /\ dArrived = dLen)
  /\ [][\A t \in armed \ armed' :
          \/ dArrived' = dArrived + 1
          \/ procDone' /\ ~procDone
          \/ t[2] <= now]_vars
  /\ [][dYielded' = dYielded =>
          /\ dEmitted' # dEmitted =>
               outputs' = Append(outputs, dEmitted'[Len(dEmitted')].v)
          /\ dEmitted' = dEmitted => outputs' = outputs]_vars

\* C35 witness: the consumer received the first value and never pulled
\* again; the source delivered two more elements and ended, and the two
\* values emitted since wait in the queue.
DebounceUnattendedWitness ==
  /\ dpc = "yielded" /\ dYielded = <<1>>
  /\ dLen = 3 /\ procDone
  /\ outputs = <<2, 3>>
  /\ armed = {}

\* -------------------------------------------------------------------------
\* createDualRegistry: render on the registry as built
\* -------------------------------------------------------------------------

\* C38: on a registry built by createDualRegistry, get of either
\* sub-registry returns a renderer for every type, so render always obtains
\* the renderer of the path it selected (which the sub-registry then holds in
\* its cache): it never goes the sync way when the streaming path was
\* selected, never ends with "No renderer found", and fails only when the
\* call itself rejects.
DualAlwaysFindsRenderer ==
  /\ (lastCall.op = "get" /\ lastCall.reg \in {"dualSync", "dualStreaming"}) =>
       /\ Len(lastCall.renderer) = 1
       /\ lastCall.renderer[1].type = lastCall.type
  /\ rdpc # "idle" =>
       /\ rdPath # "none"
       /\ rdPath = "sync" => ~(rdPrefer \/ rdType \in isStreaming)
       /\ rdPath = "sync" => rdType \in DOMAIN cache["dualSync"]
       /\ rdPath = "streaming" => rdType \in DOMAIN cache["dualStreaming"]
       /\ rdError # NoRenderer(rdType).error
       /\ rdpc = "failed" => rdError = <<"call rejected">>

\* C38 witness: a type that is not a streaming type was rendered with
\* preferStreaming on a registry whose streaming sub-registry had never seen
\* it; the streaming renderer was used and the call rejected.
DualUnknownTypeWitness ==
  /\ rdpc = "failed"
  /\ rdPrefer /\ rdType \notin isStreaming
  /\ rdPath = "streaming"
  /\ rdError = <<"call rejected">>
  /\ DOMAIN cache["dualStreaming"] = {rdType}
  /\ cache["dualSync"] = EmptyCaches["dualSync"]

\* -------------------------------------------------------------------------
\* The two streaming renderers side by side
\* -------------------------------------------------------------------------

\* createStreamingRegistry and createDualRegistry are given the same options
\* (bufferSize among them) and the same callStreaming; a renderer of the
\* first is consumed while render of the second runs.  rLen and rdLen are
\* the lengths of the streams callStreaming returned to the one and to the
\* other.
BothRenderersInit ==
  /\ now = Epoch /\ MergeOff /\ ThrottleOff /\ DebounceOff
  /\ HydrateOff /\ UtilOff
  /\ bufferSize \in 0..MaxBuf
  /\ rLen \in 0..MaxStream
  /\ rArrived = 0 /\ buffer = <<>> /\ rOut = <<>> /\ rpc = "start"
  /\ namespace \in Namespaces
  /\ procedures = {}
  /\ isStreaming \in SUBSET Types
  /\ cache = EmptyCaches /\ built = EmptyCaches /\ firstBuilt = EmptyCaches
  /\ lastCall = NoCall
  /\ gpc = "dual"
  /\ thisSync = "built" /\ thisStreaming = "built"
  /\ RenderIdle /\ rdpc = "idle"

BothRenderersNext ==
  \/ RPull
  \/ RArrive
  \/ REnd
  \/ \E type \in Types, preferStreaming \in BOOLEAN : DRender(type, preferStreaming)
  \/ DStreamYield
  \/ DStreamEnd
  \/ DSyncResolve
  \/ DSyncReturn
  \/ DCallReject

SpecBothRenderers == BothRenderersInit /\ [][BothRenderersNext]_vars

\* C39: on its streaming path render of createDualRegistry yields the
\* elements of the underlying stream one for one and in order, whatever
\* bufferSize is; so for a stream of the same length its output differs from
\* that of the renderer of createStreamingRegistry whenever bufferSize > 1
\* and the stream has more than one element (and only then).
DualStreamsWithoutCoalescing ==
  /\ (rdPath = "streaming" /\ rdpc \in {"streaming", "done"}) =>
       /\ rdOut = [k \in 1..Len(rdOut) |-> k]
       /\ Len(rdOut) <= rdLen
       /\ rdpc = "done" => Len(rdOut) = rdLen
  /\ (rdPath = "streaming" /\ rdpc = "done" /\ rpc = "done" /\ rdLen = rLen) =>
       (rOut # rdOut <=> (bufferSize > 1 /\ rLen > 1))

\* C39 witness: with buffer size 2 and a stream of two elements the dual
\* registry yielded both and the streaming registry only the second.
DualNoCoalescingWitness ==
  /\ bufferSize = 2 /\ rLen = 2 /\ rdLen = 2
  /\ rpc = "done" /\ rdpc = "done" /\ rdPath = "streaming"
  /\ rdOut = <<1, 2>>
  /\ rOut = <<2>>

\* -------------------------------------------------------------------------
\* hydrate: a fragment whose first child gives nothing
\* -------------------------------------------------------------------------

\* The first child of the root is of a type with no component and no fallback
FirstChildUnmapped ==
  /\ Root.children[1].type \notin {"__null__", "__fragment__"}
  /\ ComponentFor(Root.children[1].type) = "none"

FragmentByDefault ==
  /\ Returned /\ Root.type = "__fragment__" /\ hopts.onFragment = "none"
  /\ Root.children # <<>>

Init ==
  \/ MergeInit
  \/ ThrottleInit
  \/ DebounceInit
  \/ RendererInit
  \/ RegistriesInit
  \/ HydrateInit
  \/ UtilInit

Next ==
  \/ MergeNext
  \/ RateLimitNext
  \/ RendererNext
  \/ RegistryNext
  \/ HydrateNext
  \/ UtilNext

Spec == Init /\ [][Next]_vars

====
